---- MODULE Spec2Model ----
(***************************************************************************)
(* Model of the macro templating engine: MacroLexer.tokenize, the          *)
(* MacroParser grammar (document / macro / arguments / argument) and the   *)
(* MacroEngine.parseDocument evaluator with its MacroEvaluatorVisitor.     *)
(*                                                                         *)
(* Text is a sequence of one-character strings; offsets are 0-based as in  *)
(* the program, sequence indices are 1-based.                              *)
(***************************************************************************)
EXTENDS Integers, Sequences, FiniteSets, TLC

VARIABLES
    pc,            \* "idle" | "called" | "returned" | "tested": position of the caller
    input,         \* parseDocument's first argument (the document text)
    macros,        \* parseDocument's second argument (ordered rule list)
    parserErrors,  \* this.parser.errors of the shared MacroParser singleton
    cst,           \* what the parser's first rule returned: <<>> for undefined
    result,        \* value returned by parseDocument
    visits,        \* one record per visited macro node, in evaluation order
    nodes,         \* the sorted node list built by MacroEvaluatorVisitor.document
    chat_metadata, \* [chat_id_hash, main_chat], each <<>> when not set
    currentChatId, \* what getCurrentChatId() returns
    picks,         \* one record per call of the pick macro's callback
    registered,    \* MacrosParser.#macros: key -> value
    calls,         \* one record per registerMacro / unregisterMacro call
    earlier,       \* the calls that returned before on the same engine and parser
    inner,         \* what a parseDocument call made from inside a callback returned
    lastRandom,    \* the last call of the random macro's callback, <<>> before it
    nonces,        \* the nonces uuidv4() has handed out
    evaluations,   \* one record per evaluateMacros call
    stream,        \* the packets the response stream still holds
    times,         \* readStream's `times`: the expected number of finished packets
    soFar,         \* readStream's `soFar`: the finished packets seen
    reader,        \* "none" | "scheduled" | "returned" | "threw": readStream's position
    progressContainer  \* the display style of #loading_progress_container

\* the engine and the parser
engineVars == <<pc, input, macros, parserErrors, cst, result, visits, nodes,
                earlier, inner>>
\* what the pick and random macros read and write
chatVars == <<chat_metadata, currentChatId, picks, lastRandom>>
\* the registry of named rules
registryVars == <<registered, calls>>
\* evaluateMacros
evalVars == <<nonces, evaluations>>
\* the model loader's progress reader
streamVars == <<stream, times, soFar, reader, progressContainer>>

vars == <<pc, input, macros, parserErrors, cst, result, visits, nodes,
          chat_metadata, currentChatId, picks, registered, calls,
          earlier, inner, lastRandom, nonces, evaluations,
          stream, times, soFar, reader, progressContainer>>

----------------------------------------------------------------------------
(* Characters and strings *)

Letters ==
    {"a", "b", "c", "d", "e", "f", "g", "h", "i", "j", "k", "l", "m",
     "n", "o", "p", "q", "r", "s", "t", "u", "v", "w", "x", "y", "z"}
WhiteSpace == {" "}

\* text[i..i+1] = "{{" etc. (i is a 1-based index)
At2(text, i, c) == i + 1 <= Len(text) /\ text[i] = c /\ text[i + 1] = c

RECURSIVE Flatten(_)
Flatten(ss) == IF ss = <<>> THEN <<>> ELSE Head(ss) \o Flatten(Tail(ss))

\* Array.prototype.join
RECURSIVE Join(_, _)
Join(ss, sep) ==
    IF ss = <<>> THEN <<>>
    ELSE IF Len(ss) = 1 THEN ss[1]
    ELSE ss[1] \o sep \o Join(Tail(ss), sep)

\* String.prototype.trim
RECURSIVE TrimStart(_)
TrimStart(s) ==
    IF s # <<>> /\ Head(s) \in WhiteSpace THEN TrimStart(Tail(s)) ELSE s

RECURSIVE TrimEnd(_)
TrimEnd(s) ==
    IF s # <<>> /\ s[Len(s)] \in WhiteSpace THEN TrimEnd(SubSeq(s, 1, Len(s) - 1)) ELSE s

Trim(s) == TrimEnd(TrimStart(s))

\* Array.from(s).reverse().join('')
RECURSIVE Reverse(_)
Reverse(s) == IF s = <<>> THEN <<>> ELSE Append(Reverse(Tail(s)), Head(s))

Alphabet == <<"0", "1", "2", "3", "4", "5", "6", "7", "8", "9", "-", "a", "b">>

\* a number written out, as in a template literal or String(n): its decimal digits
RECURSIVE Digits(_)
Digits(n) ==
    IF n < 10 THEN <<Alphabet[n + 1]>>
    ELSE Digits(n \div 10) \o <<Alphabet[(n % 10) + 1]>>

----------------------------------------------------------------------------
(* MacroLexer.tokenize *)

Token(type, text, i, j) ==
    [tokenType |-> type, image |-> SubSeq(text, i, j),
     startOffset |-> i - 1, endOffset |-> j - 1]

EOF == [tokenType |-> "EOF", image |-> <<>>, startOffset |-> -1, endOffset |-> -1]

\* first index >= i at which "{{" starts, or Len(text)+1
RECURSIVE NextMacroStart(_, _)
NextMacroStart(text, i) ==
    IF i > Len(text) THEN Len(text) + 1
    ELSE IF At2(text, i, "{") THEN i
    ELSE NextMacroStart(text, i + 1)

\* last index of the maximal run of identifier characters starting at i
RECURSIVE IdentEnd(_, _)
IdentEnd(text, i) ==
    IF i + 1 <= Len(text) /\ text[i + 1] \in Letters THEN IdentEnd(text, i + 1) ELSE i

Pop(modes) == SubSeq(modes, 1, Len(modes) - 1)
Top(modes) == modes[Len(modes)]
SetTop(modes, m) == Pop(modes) \o <<m>>

\* modes: the lexer's mode stack; empty = plaintext, otherwise the innermost
\* open macro is in "def" (before its identifier) or "args" (after it)
RECURSIVE LexFrom(_, _, _)
LexFrom(text, i, modes) ==
    IF i > Len(text) THEN <<>>
    ELSE IF modes = <<>> THEN
        IF At2(text, i, "{")
        THEN <<Token("Macro.Start", text, i, i + 1)>> \o LexFrom(text, i + 2, <<"def">>)
        ELSE LET j == NextMacroStart(text, i + 1)
             IN  <<Token("Plaintext", text, i, j - 1)>> \o LexFrom(text, j, modes)
    ELSE IF text[i] \in WhiteSpace THEN LexFrom(text, i + 1, modes)
    ELSE IF At2(text, i, "{")
        THEN <<Token("Macro.Start", text, i, i + 1)>> \o LexFrom(text, i + 2, modes \o <<"def">>)
    ELSE IF At2(text, i, "}")
        THEN <<Token("Macro.End", text, i, i + 1)>> \o LexFrom(text, i + 2, Pop(modes))
    ELSE IF At2(text, i, ":")
        THEN <<Token("Args.DoubleColon", text, i, i + 1)>> \o LexFrom(text, i + 2, modes)
    ELSE IF text[i] = ":"
        THEN <<Token("Args.Colon", text, i, i)>> \o LexFrom(text, i + 1, modes)
    ELSE IF text[i] \in Letters
        THEN LET j == IdentEnd(text, i)
             IN  IF Top(modes) = "def"
                 THEN <<Token("Macro.Identifier", text, i, j)>>
                          \o LexFrom(text, j + 1, SetTop(modes, "args"))
                 ELSE <<Token("Identifier", text, i, j)>> \o LexFrom(text, j + 1, modes)
    ELSE <<Token("Unknown", text, i, i)>> \o LexFrom(text, i + 1, modes)

tokenize(text) == LexFrom(text, 1, <<>>)

----------------------------------------------------------------------------
(* MacroParser: the grammar rules, as the parsing library executes them    *)
(* (LL(1) decisions, no error recovery: the first recognition exception    *)
(* unwinds to the rule that was invoked first).                            *)

LA(toks, p) == IF p <= Len(toks) THEN toks[p] ELSE EOF

Ok(node, p) == [ok |-> TRUE, node |-> <<node>>, pos |-> p, error |-> <<>>]
Fail(err) == [ok |-> FALSE, node |-> <<>>, pos |-> 0, error |-> <<err>>]

MismatchedToken(expected, found) ==
    [name |-> "MismatchedTokenException", expected |-> expected, found |-> found.image]
EarlyExit(found) ==
    [name |-> "EarlyExitException", expected |-> "argument", found |-> found.image]
NotAllInputParsed(found) ==
    [name |-> "NotAllInputParsedException", expected |-> "EOF", found |-> found.image]

\* token types an argument iteration can start with (the four alternatives)
ArgumentFirst == {"Macro.Start", "Identifier", "Unknown", "Args.Colon"}

EmptyArgument ==
    [name |-> "argument", macro |-> <<>>, Identifier |-> <<>>, Unknown |-> <<>>,
     ArgsColon |-> <<>>]

RECURSIVE macroRule(_, _)
RECURSIVE argumentsRule(_, _)
RECURSIVE argumentsSep(_, _, _)
RECURSIVE argumentRule(_, _)
RECURSIVE argumentMany(_, _, _)
RECURSIVE documentMany(_, _, _)

\* variant: a single colon is not an alternative of the argument's content
RECURSIVE argumentManyNoColon(_, _, _)
argumentManyNoColon(toks, p, node) ==
    LET t == LA(toks, p) IN
    IF t.tokenType = "Macro.Start" THEN
        LET m == macroRule(toks, p) IN
        IF m.ok
        THEN argumentManyNoColon(toks, m.pos, [node EXCEPT !.macro = @ \o m.node])
        ELSE m
    ELSE IF t.tokenType = "Identifier"
        THEN argumentManyNoColon(toks, p + 1, [node EXCEPT !.Identifier = Append(@, t)])
    ELSE IF t.tokenType = "Unknown"
        THEN argumentManyNoColon(toks, p + 1, [node EXCEPT !.Unknown = Append(@, t)])
    ELSE Ok(node, p)

\* $.argument: the iterations after the first of AT_LEAST_ONE; every consumed
\* token or subrule result is filed under its own key of the CST node
argumentMany(toks, p, node) ==
    LET t == LA(toks, p) IN
    IF t.tokenType = "Macro.Start" THEN
        LET m == macroRule(toks, p) IN
        IF m.ok
        THEN argumentMany(toks, m.pos, [node EXCEPT !.macro = @ \o m.node])
        ELSE m
    ELSE IF t.tokenType = "Identifier"
        THEN argumentMany(toks, p + 1, [node EXCEPT !.Identifier = Append(@, t)])
    ELSE IF t.tokenType = "Unknown"
        THEN argumentMany(toks, p + 1, [node EXCEPT !.Unknown = Append(@, t)])
    ELSE IF t.tokenType = "Args.Colon"
        THEN argumentMany(toks, p + 1, [node EXCEPT !.ArgsColon = Append(@, t)])
    ELSE Ok(node, p)

\* variant: MANY instead of AT_LEAST_ONE, an argument may be empty
argumentRuleMaybeEmpty(toks, p) == argumentMany(toks, p, EmptyArgument)

\* $.argument
argumentRule(toks, p) ==
    IF LA(toks, p).tokenType \in ArgumentFirst
    THEN argumentMany(toks, p, EmptyArgument)
    ELSE Fail(EarlyExit(LA(toks, p)))

\* $.arguments: the loop of AT_LEAST_ONE_SEP after its first iteration
argumentsSep(toks, p, node) ==
    IF LA(toks, p).tokenType = "Args.DoubleColon"
    THEN LET a == argumentRule(toks, p + 1) IN
         IF a.ok
         THEN argumentsSep(toks, a.pos,
                  [node EXCEPT !.argument = @ \o a.node,
                               !.ArgsDoubleColon = Append(@, LA(toks, p))])
         ELSE a
    ELSE Ok(node, p)

\* $.arguments (entered by OPTION only when LA(1) is "::" or ":")
argumentsRule(toks, p) ==
    LET sep == LA(toks, p) IN
    IF LA(toks, p + 1).tokenType \notin ArgumentFirst
    THEN Fail(EarlyExit(LA(toks, p + 1)))
    ELSE LET a == argumentRule(toks, p + 1) IN
         IF a.ok
         THEN argumentsSep(toks, a.pos,
                  [name |-> "arguments", separator |-> sep, argument |-> a.node,
                   ArgsDoubleColon |-> <<>>])
         ELSE a

\* variant: the closing delimiter may be missing at the end of the input
macroRuleUnclosed(toks, p) ==
    IF LA(toks, p).tokenType # "Macro.Start"
    THEN Fail(MismatchedToken("Macro.Start", LA(toks, p)))
    ELSE IF LA(toks, p + 1).tokenType # "Macro.Identifier"
    THEN Fail(MismatchedToken("Macro.Identifier", LA(toks, p + 1)))
    ELSE LET hasArgs == LA(toks, p + 2).tokenType \in {"Args.DoubleColon", "Args.Colon"}
             a == IF hasArgs THEN argumentsRule(toks, p + 2)
                  ELSE [ok |-> TRUE, node |-> <<>>, pos |-> p + 2, error |-> <<>>]
         IN  IF ~a.ok THEN a
             ELSE IF LA(toks, a.pos).tokenType \notin {"Macro.End", "EOF"}
             THEN Fail(MismatchedToken("Macro.End", LA(toks, a.pos)))
             ELSE Ok([name |-> "macro",
                      MacroStart |-> toks[p],
                      MacroIdentifier |-> toks[p + 1],
                      arguments |-> a.node,
                      MacroEnd |-> LA(toks, a.pos),
                      location |-> [startOffset |-> toks[p].startOffset,
                                    endOffset |-> toks[a.pos - 1].endOffset]],
                     a.pos + 1)

\* $.macro
macroRule(toks, p) ==
    IF LA(toks, p).tokenType # "Macro.Start"
    THEN Fail(MismatchedToken("Macro.Start", LA(toks, p)))
    ELSE IF LA(toks, p + 1).tokenType # "Macro.Identifier"
    THEN Fail(MismatchedToken("Macro.Identifier", LA(toks, p + 1)))
    ELSE LET hasArgs == LA(toks, p + 2).tokenType \in {"Args.DoubleColon", "Args.Colon"}
             a == IF hasArgs THEN argumentsRule(toks, p + 2)
                  ELSE [ok |-> TRUE, node |-> <<>>, pos |-> p + 2, error |-> <<>>]
         IN  IF ~a.ok THEN a
             ELSE IF LA(toks, a.pos).tokenType # "Macro.End"
             THEN Fail(MismatchedToken("Macro.End", LA(toks, a.pos)))
             ELSE Ok([name |-> "macro",
                      MacroStart |-> toks[p],
                      MacroIdentifier |-> toks[p + 1],
                      arguments |-> a.node,
                      MacroEnd |-> toks[a.pos],
                      location |-> [startOffset |-> toks[p].startOffset,
                                    endOffset |-> toks[a.pos].endOffset]],
                     a.pos + 1)

\* variant: MANY( macro ), plaintext is not an alternative
documentManyMacrosOnly(toks, p, node) ==
    IF LA(toks, p).tokenType = "Macro.Start" THEN
        LET m == macroRule(toks, p) IN
        IF m.ok
        THEN documentMany(toks, m.pos, [node EXCEPT !.macro = @ \o m.node])
        ELSE m
    ELSE Ok(node, p)

\* $.document: MANY( OR( Plaintext | macro ) )
documentMany(toks, p, node) ==
    LET t == LA(toks, p) IN
    IF t.tokenType = "Plaintext"
        THEN documentMany(toks, p + 1, [node EXCEPT !.Plaintext = Append(@, t)])
    ELSE IF t.tokenType = "Macro.Start" THEN
        LET m == macroRule(toks, p) IN
        IF m.ok
        THEN documentMany(toks, m.pos, [node EXCEPT !.macro = @ \o m.node])
        ELSE m
    ELSE Ok(node, p)

\* Invocation of a rule as the first rule: the CST (<<>> for undefined) and
\* the parser's error list after it; input left over after the rule is an error
TopLevel(toks, r) ==
    IF ~r.ok THEN [cst |-> <<>>, errors |-> r.error]
    ELSE IF r.pos <= Len(toks)
    THEN [cst |-> r.node, errors |-> <<NotAllInputParsed(toks[r.pos])>>]
    ELSE [cst |-> r.node, errors |-> <<>>]

document(toks) ==
    TopLevel(toks, documentMany(toks, 1,
                 [name |-> "document", Plaintext |-> <<>>, macro |-> <<>>]))

\* MacroParser.test(input): the macro rule run as the first rule
test(text) == LET toks == tokenize(text) IN TopLevel(toks, macroRule(toks, 1))

\* the parser singleton between calls: the tokens it was last given and the
\* errors it holds
NewParser == [input |-> <<>>, errors |-> <<>>]

\* variant: the setter swaps the tokens and keeps the errors
SetInputKeepsErrors(parser, tokens) == [parser EXCEPT !.input = tokens]

\* this.parser.input = tokens: "input" is a setter which resets the
\* parser's state
SetInput(parser, tokens) == [input |-> tokens, errors |-> <<>>]

\* variant: the document rule run as the first rule
testAtDocument(parser, text) ==
    LET set == SetInput(parser, tokenize(text))
        r == document(set.input)
    IN  [cst |-> r.cst, errors |-> set.errors \o r.errors]

\* MacroParser.test(input) on a parser that has been used before: the
\* returned errors are this.errors after the macro rule ran
testOnInstance(parser, text) ==
    LET set == SetInput(parser, tokenize(text))
        r == TopLevel(set.input, macroRule(set.input, 1))
    IN  [cst |-> r.cst, errors |-> set.errors \o r.errors]

----------------------------------------------------------------------------
(* MacroEngine.parseDocument and its MacroEvaluatorVisitor.                *)
(* A rule is [name |-> [isArray, value], replace |-> [kind, value]]:       *)
(* name.value is the list of names (one name when name is a plain string); *)
(* replace returns the string `value`, throws, or returns a non-string.    *)
(* Every visitor method returns its value together with the log of macro   *)
(* visits made so far (the order in which replace callbacks run).          *)

\* the predicate given to macros.find
NameMatches(macro, identifier) ==
    IF macro.name.isArray
    THEN \E i \in 1..Len(macro.name.value) : macro.name.value[i] = identifier
    ELSE macro.name.value[1] = identifier

\* variant: the last matching rule instead of the first
FindLastMatching(rules, identifier) ==
    IF \E i \in 1..Len(rules) : NameMatches(rules[i], identifier)
    THEN CHOOSE i \in 1..Len(rules) :
             /\ NameMatches(rules[i], identifier)
             /\ \A j \in (i + 1)..Len(rules) : ~NameMatches(rules[j], identifier)
    ELSE 0

\* macros.find(...): index of the first matching rule, 0 for undefined
FindMatching(rules, identifier) ==
    IF \E i \in 1..Len(rules) : NameMatches(rules[i], identifier)
    THEN CHOOSE i \in 1..Len(rules) :
             /\ NameMatches(rules[i], identifier)
             /\ \A j \in 1..(i - 1) : ~NameMatches(rules[j], identifier)
    ELSE 0

\* variant: the arguments joined by a single colon
ReserializeSingleColon(identifier, args) ==
    <<"{", "{">> \o identifier
        \o (IF Len(args) > 0 THEN <<":", ":">> \o Join(args, <<":">>) ELSE <<>>)
        \o <<"}", "}">>

\* `{{${identifier}${args.length > 0 ? '::' + args.join('::') : ''}}}`
Reserialize(identifier, args) ==
    <<"{", "{">> \o identifier
        \o (IF Len(args) > 0 THEN <<":", ":">> \o Join(args, <<":", ":">>) ELSE <<>>)
        \o <<"}", "}">>

Images(toks) == [i \in 1..Len(toks) |-> toks[i].image]

RECURSIVE visitMacro(_, _, _, _)
RECURSIVE visitMacros(_, _, _, _, _)
RECURSIVE visitArgumentList(_, _, _, _, _)

\* variant: nested macros are visited but their source text is kept
visitArgumentRaw(ctx, doc, rules, log) ==
    LET nested == visitMacros(ctx.macro, doc, rules, log, <<>>)
        raw    == [i \in 1..Len(ctx.macro) |->
                      SubSeq(doc, ctx.macro[i].location.startOffset + 1,
                                  ctx.macro[i].location.endOffset + 1)]
        parts  == raw \o Images(ctx.Identifier) \o Images(ctx.Unknown)
                      \o Images(ctx.ArgsColon)
    IN  [value |-> Trim(Flatten(parts)), log |-> nested.log]

\* visitor.argument
visitArgument(ctx, doc, rules, log) ==
    LET nested == visitMacros(ctx.macro, doc, rules, log, <<>>)
        parts  == nested.value \o Images(ctx.Identifier) \o Images(ctx.Unknown)
                      \o Images(ctx.ArgsColon)
    IN  [value |-> Trim(Flatten(parts)), log |-> nested.log]

\* the loop of visitor.arguments over ctx.argument
visitArgumentList(argnodes, doc, rules, log, acc) ==
    IF argnodes = <<>> THEN [value |-> acc, log |-> log]
    ELSE LET a == visitArgument(Head(argnodes), doc, rules, log)
         IN  visitArgumentList(Tail(argnodes), doc, rules, a.log, Append(acc, a.value))

\* variant: the loop runs over ctx.argument from the last to the first
visitArgumentsLastFirst(ctx, doc, rules, log) ==
    LET r == visitArgumentList(Reverse(ctx.argument), doc, rules, log, <<>>)
    IN  [value |-> Reverse(r.value), log |-> r.log]

\* visitor.arguments
visitArguments(ctx, doc, rules, log) ==
    visitArgumentList(ctx.argument, doc, rules, log, <<>>)

\* a loop visiting macro nodes in array order, collecting their values
visitMacros(mnodes, doc, rules, log, acc) ==
    IF mnodes = <<>> THEN [value |-> acc, log |-> log]
    ELSE LET m == visitMacro(Head(mnodes), doc, rules, log)
         IN  visitMacros(Tail(mnodes), doc, rules, m.log, Append(acc, m.value))

\* variant: the offset of the identifier instead of the opening token
MacroReplaceArgsAtIdentifier(ctx, args, doc) ==
    [args |-> args, offset |-> ctx.MacroIdentifier.startOffset, document |-> doc]

\* the MacroReplaceArgs object built for a matching rule
MacroReplaceArgs(ctx, args, doc) ==
    [args |-> args, offset |-> ctx.MacroStart.startOffset, document |-> doc]

\* the value a callback hands back: a string, or one of the non-string values
\* null, undefined, a function (value is its source text) and a promise
ReturnValue(replace) ==
    [type |-> IF replace.kind \in {"return", "throw"} THEN "string" ELSE replace.kind,
     value |-> replace.value]

\* String(result)
String(v) ==
    CASE v.type = "string"    -> v.value
      [] v.type = "null"      -> <<"n", "u", "l", "l">>
      [] v.type = "undefined" -> <<"u", "n", "d", "e", "f", "i", "n", "e", "d">>
      [] v.type = "function"  -> v.value
      [] v.type = "promise"   -> <<"[", "o", "b", "j", "e", "c", "t", " ",
                                   "P", "r", "o", "m", "i", "s", "e", "]">>
      [] v.type = "number"    -> Digits(v.value)
      [] v.type = "boolean"   -> IF v.value THEN <<"t", "r", "u", "e">>
                                 ELSE <<"f", "a", "l", "s", "e">>

Returns(s) == [threw |-> FALSE, result |-> s]
Throws == [threw |-> TRUE, result |-> <<>>]

\* a number in a timestamp, padded with zeros to the given width
PadStart(n, width) ==
    LET ds == Digits(n) IN [i \in 1..(width - Len(ds)) |-> "0"] \o ds

\* Date.prototype.toISOString(): a date is [year, month, day] at midnight UTC,
\* or <<>> when its time value is NaN, for which the call throws a RangeError
toISOString(d) ==
    IF d.value = <<>> THEN Throws
    ELSE Returns(PadStart(d.value[1], 4) \o <<"-">> \o PadStart(d.value[2], 2) \o <<"-">>
                     \o PadStart(d.value[3], 2)
                     \o <<"T", "0", "0", ":", "0", "0", ":", "0", "0", ".", "0", "0", "0", "Z">>)

\* the members of an object: "key":number, separated by commas
RECURSIVE Members(_)
Members(props) ==
    IF props = <<>> THEN <<>>
    ELSE <<"\"", props[1][1], "\"", ":">> \o Digits(props[1][2])
             \o (IF Len(props) > 1 THEN <<",">> ELSE <<>>) \o Members(Tail(props))

\* JSON.stringify(value) of an object with number-valued properties; it
\* throws a TypeError when the object refers to itself
JSONstringify(o) ==
    IF o.cyclic THEN Throws ELSE Returns(<<"{">> \o Members(o.value) \o <<"}">>)

\* MacrosParser.sanitizeMacroValue(value): the string it returns, or that it threw
sanitizeMacroValue(v) ==
    CASE v.type = "string"    -> Returns(v.value)
      [] v.type = "null"      -> Returns(<<>>)
      [] v.type = "undefined" -> Returns(<<>>)
      [] v.type = "promise"   -> Returns(<<>>)
      [] v.type = "function"  -> Returns(<<>>)
      [] v.type = "date"      -> toISOString(v)
      [] v.type = "object"    -> JSONstringify(v)
      [] OTHER                -> Returns(String(v))

\* the rule's callback: matchingMacro.replace(macroArgs); the callback of the
\* reverse macro computes its value from its first argument
Replace(rule, macroArgs) ==
    [threw |-> rule.replace.kind = "throw",
     result |-> IF rule.replace.kind = "reverse"
                THEN [type |-> "string",
                      value |-> Reverse(IF macroArgs.args # <<>> THEN macroArgs.args[1]
                                        ELSE <<>>)]
                ELSE ReturnValue(rule.replace)]

\* variant: a failed callback yields the empty string
ReplaceOrEmpty(rule, identifier, macroArgs) ==
    LET r == Replace(rule, macroArgs) IN
    IF r.threw THEN <<>> ELSE String(r.result)

\* the try/catch around the callback: String(result), or on an exception
\* the macro text rebuilt from the evaluated arguments
ReplaceOrReserialize(rule, identifier, macroArgs) ==
    LET r == Replace(rule, macroArgs) IN
    IF r.threw THEN Reserialize(identifier, macroArgs.args) ELSE String(r.result)

\* variant: the identifier is the text between the opening delimiter and the
\* separator or closing delimiter, whitespace included
visitMacroRawIdentifier(ctx, doc, rules, log) ==
    LET next == IF ctx.arguments # <<>> THEN ctx.arguments[1].separator
                ELSE ctx.MacroEnd
        identifier == SubSeq(doc, ctx.MacroStart.endOffset + 2, next.startOffset)
        args == IF ctx.arguments # <<>>
                THEN visitArguments(ctx.arguments[1], doc, rules, log)
                ELSE [value |-> <<>>, log |-> log]
        idx == FindMatching(rules, identifier)
        macroArgs == MacroReplaceArgs(ctx, args.value, doc)
        outcome == IF idx = 0 THEN "unmatched"
                   ELSE IF Replace(rules[idx], macroArgs).threw THEN "threw"
                   ELSE "returned"
        value == IF idx # 0
                 THEN ReplaceOrReserialize(rules[idx], identifier, macroArgs)
                 ELSE Reserialize(identifier, args.value)
        visit == [identifier |-> identifier,
                  args |-> args.value,
                  rule |-> idx,
                  macroArgs |-> IF idx = 0 THEN <<>> ELSE <<macroArgs>>,
                  outcome |-> outcome,
                  value |-> value,
                  location |-> ctx.location]
    IN  [value |-> value, log |-> Append(args.log, visit)]

\* visitor.macro
visitMacro(ctx, doc, rules, log) ==
    LET identifier == ctx.MacroIdentifier.image
        args == IF ctx.arguments # <<>>
                THEN visitArguments(ctx.arguments[1], doc, rules, log)
                ELSE [value |-> <<>>, log |-> log]
        idx == FindMatching(rules, identifier)
        macroArgs == MacroReplaceArgs(ctx, args.value, doc)
        outcome == IF idx = 0 THEN "unmatched"
                   ELSE IF Replace(rules[idx], macroArgs).threw THEN "threw"
                   ELSE "returned"
        value == IF idx # 0
                 THEN ReplaceOrReserialize(rules[idx], identifier, macroArgs)
                 ELSE Reserialize(identifier, args.value)
        visit == [identifier |-> identifier,
                  args |-> args.value,
                  rule |-> idx,
                  macroArgs |-> IF idx = 0 THEN <<>> ELSE <<macroArgs>>,
                  outcome |-> outcome,
                  value |-> value,
                  location |-> ctx.location]
    IN  [value |-> value, log |-> Append(args.log, visit)]

PlaintextNodes(toks) ==
    [i \in 1..Len(toks) |->
        [startOffset |-> toks[i].startOffset, content |-> toks[i].image,
         type |-> "plaintext"]]

MacroNodes(mnodes, values) ==
    [i \in 1..Len(mnodes) |->
        [startOffset |-> mnodes[i].location.startOffset, content |-> values[i],
         type |-> "macro"]]

\* nodes.sort((a, b) => a.startOffset - b.startOffset): stable insertion
RECURSIVE InsertNode(_, _)
InsertNode(sorted, n) ==
    IF sorted = <<>> THEN <<n>>
    ELSE IF sorted[Len(sorted)].startOffset <= n.startOffset THEN Append(sorted, n)
    ELSE Append(InsertNode(SubSeq(sorted, 1, Len(sorted) - 1), n), sorted[Len(sorted)])

RECURSIVE SortNodes(_)
SortNodes(ns) ==
    IF ns = <<>> THEN <<>>
    ELSE InsertNode(SortNodes(SubSeq(ns, 1, Len(ns) - 1)), ns[Len(ns)])

Contents(ns) == [i \in 1..Len(ns) |-> ns[i].content]

\* visitor.document
visitDocument(ctx, doc, rules) ==
    LET ms == visitMacros(ctx.macro, doc, rules, <<>>, <<>>)
        ns == SortNodes(PlaintextNodes(ctx.Plaintext) \o MacroNodes(ctx.macro, ms.value))
    IN  [value |-> Flatten(Contents(ns)), log |-> ms.log, nodes |-> ns]

\* variant: a failed parse yields the empty string
parseDocumentEmptyOnError(text, rules) ==
    LET parsed == document(tokenize(text)) IN
    IF Len(parsed.errors) > 0
    THEN [result |-> <<>>, errors |-> parsed.errors, cst |-> parsed.cst,
          visits |-> <<>>, nodes |-> <<>>]
    ELSE LET v == visitDocument(parsed.cst[1], text, rules)
         IN  [result |-> IF v.value # <<>> THEN v.value ELSE text,
              errors |-> parsed.errors, cst |-> parsed.cst,
              visits |-> v.log, nodes |-> v.nodes]

\* MacroEngine.parseDocument(input, macros): the returned string, with the
\* parser's error list and what the visitor did
parseDocument(text, rules) ==
    LET parsed == document(tokenize(text)) IN
    IF Len(parsed.errors) > 0
    THEN [result |-> text, errors |-> parsed.errors, cst |-> parsed.cst,
          visits |-> <<>>, nodes |-> <<>>]
    ELSE LET v == visitDocument(parsed.cst[1], text, rules)
         IN  [result |-> IF v.value # <<>> THEN v.value ELSE text,
              errors |-> parsed.errors, cst |-> parsed.cst,
              visits |-> v.log, nodes |-> v.nodes]

\* MacroEngine.instance.parseDocument(input, macros) on a parser that has
\* been used before: a rule adds its errors to those the parser holds, and
\* the engine reads this.parser.errors
parseDocumentOnInstance(parser, text, rules) ==
    LET set == SetInput(parser, tokenize(text))
        parsed == document(set.input)
        errors == set.errors \o parsed.errors
    IN  IF Len(errors) > 0
        THEN [result |-> text, errors |-> errors, cst |-> parsed.cst,
              visits |-> <<>>, nodes |-> <<>>]
        ELSE LET v == visitDocument(parsed.cst[1], text, rules)
             IN  [result |-> IF v.value # <<>> THEN v.value ELSE text,
                  errors |-> errors, cst |-> parsed.cst,
                  visits |-> v.log, nodes |-> v.nodes]

\* `return result || input` with what the visitor did
OrInput(v, text) ==
    [result |-> IF v.value # <<>> THEN v.value ELSE text,
     visits |-> v.log, nodes |-> v.nodes]

\* variant: after the visit the engine reads this.parser.errors again
visitOnInstanceRereadsErrors(parser, tree, text, rules) ==
    IF Len(parser.errors) > 0
    THEN [result |-> text, visits |-> <<>>, nodes |-> <<>>]
    ELSE OrInput(visitDocument(tree[1], text, rules), text)

\* the second half of parseDocument: visitor.visit(cst) on the CST the call
\* holds in a local, and `return result || input`; the parser is not read
visitOnInstance(parser, tree, text, rules) ==
    OrInput(visitDocument(tree[1], text, rules), text)

\* a callback of kind "reenter" calls parseDocument(value, InnerRules) and
\* returns what it got: the rule list with those callbacks replaced by what
\* they return, given for each text what parseDocument returns for it
Resolve(rules, returned) ==
    [i \in 1..Len(rules) |->
        IF rules[i].replace.kind = "reenter"
        THEN [rules[i] EXCEPT !.replace = [kind |-> "return",
                                           value |-> returned[rules[i].replace.value]]]
        ELSE rules[i]]

----------------------------------------------------------------------------
(* macros.js: the chat id hash and the pick macro *)

Code(c) == CHOOSE i \in 1..Len(Alphabet) : Alphabet[i] = c

HashSpace == 16   \* hashes are 0 .. HashSpace - 1
RngSteps == 6     \* a generator's output is k / RngSteps, k in 0 .. RngSteps - 1

\* getStringHash(str): a hash computed from the characters in order
RECURSIVE HashFrom(_, _)
HashFrom(s, h) ==
    IF s = <<>> THEN h ELSE HashFrom(Tail(s), (h * 31 + Code(Head(s))) % HashSpace)

getStringHash(s) == HashFrom(s, 0)

\* variant: the hash is computed from the chat id on every call
getChatIdHashRecomputed(meta, current) ==
    LET chatId == IF meta.main_chat # <<>> THEN meta.main_chat[1] ELSE current
        chatIdHash == getStringHash(chatId)
    IN  [value |-> chatIdHash,
         meta |-> [meta EXCEPT !.chat_id_hash = <<chatIdHash>>]]

\* getChatIdHash(): the hash and the metadata after the call
getChatIdHash(meta, current) ==
    IF meta.chat_id_hash = <<>> \/ meta.chat_id_hash = <<0>>
    THEN LET chatId == IF meta.main_chat # <<>> THEN meta.main_chat[1] ELSE current
             chatIdHash == getStringHash(chatId)
         IN  [value |-> chatIdHash,
              meta |-> [meta EXCEPT !.chat_id_hash = <<chatIdHash>>]]
    ELSE [value |-> meta.chat_id_hash[1], meta |-> meta]

\* variant: a generator that ignores its seed, as with { entropy: true }
seedrandomWithEntropy(seed) == 0..(RngSteps - 1)

\* seedrandom(seed): the outputs the first rng() of the generator can have
seedrandom(seed) == {(seed * 5 + 1) % RngSteps}

\* seedrandom('added entropy.', { entropy: true }): the first rng() can be
\* any output
EntropySeeded == 0..(RngSteps - 1)

\* `${chatIdHash}-${rawContentHash}-${macro.offset}` hashed
FinalSeed(chatIdHash, macro) ==
    getStringHash(Digits(chatIdHash) \o <<"-">> \o Digits(getStringHash(macro.document))
                      \o <<"-">> \o Digits(macro.offset))

\* variant: Math.ceil(rng() * macro.args.length)
RandomIndexCeil(u, args) == (u * Len(args) + RngSteps - 1) \div RngSteps

\* Math.floor(rng() * macro.args.length)
RandomIndex(u, args) == (u * Len(args)) \div RngSteps

\* args[randomIndex]: the element, or undefined (written <<>>) when the
\* index is not one of the array
ArrayGet(args, randomIndex) ==
    IF randomIndex \in 0..(Len(args) - 1) THEN args[randomIndex + 1] ELSE <<>>

----------------------------------------------------------------------------
(* macros.js: evaluateMacros.                                               *)
(* An env is [type, entries]: of type "object" with its own properties in   *)
(* insertion order, each [key, value], or of another type with no entries.  *)
(* A function-valued entry has the field `returns`: what a call returns.    *)

\* env[key] = value
Assign(entries, key, value) ==
    IF \E i \in 1..Len(entries) : entries[i].key = key
    THEN [i \in 1..Len(entries) |->
             IF entries[i].key = key THEN [key |-> key, value |-> value] ELSE entries[i]]
    ELSE Append(entries, [key |-> key, value |-> value])

\* for (const [key, value] of this.#macros) env[key] = value
RECURSIVE AssignAll(_, _, _)
AssignAll(entries, map, keys) ==
    IF keys = {} THEN entries
    ELSE LET k == CHOOSE key \in keys : TRUE
         IN  AssignAll(Assign(entries, k, map[k]), map, keys \ {k})

\* MacrosParser.populateEnv(env): the env object after the call
populateEnv(env, map) ==
    IF env.type # "object" THEN env
    ELSE IF DOMAIN map = {} THEN env
    ELSE [env EXCEPT !.entries = AssignAll(@, map, DOMAIN map)]

StaticRule(name, kind, value) ==
    [name |-> [isArray |-> FALSE, value |-> <<name>>],
     replace |-> [kind |-> kind, value |-> value]]

\* built-ins running before the env variables: newline and noop
preEnvMacros ==
    << StaticRule(<<"n", "e", "w", "l", "i", "n", "e">>, "return", <<"\n">>),
       StaticRule(<<"n", "o", "o", "p">>, "return", <<>>) >>

\* built-ins running after the env variables: reverse
postEnvMacros ==
    << StaticRule(<<"r", "e", "v", "e", "r", "s", "e">>, "reverse", <<>>) >>

\* envReplace: sanitizeMacroValue(typeof param === 'function' ? param(nonce) : param)
envReplace(param) ==
    LET value == sanitizeMacroValue(IF param.type = "function" THEN param.returns
                                    ELSE param)
    IN  IF value.threw THEN [kind |-> "throw", value |-> <<>>]
        ELSE [kind |-> "return", value |-> value.result]

\* envMacros: one rule per own property of env
envMacros(entries) ==
    [i \in 1..Len(entries) |->
        [name |-> [isArray |-> FALSE, value |-> <<entries[i].key>>],
         replace |-> envReplace(entries[i].value)]]

\* the env entry behind rule k of the list, <<>> when rule k is a built-in
EntryOfRule(entries, k) ==
    IF k > Len(preEnvMacros) /\ k <= Len(preEnvMacros) + Len(entries)
    THEN <<entries[k - Len(preEnvMacros)]>>
    ELSE <<>>

\* variant: every function-valued entry is called when the rule list is built
InvocationsWhenBuilt(entries, log, nonce) ==
    LET fs == SelectSeq(entries, LAMBDA e : e.value.type = "function")
    IN  [i \in 1..Len(fs) |-> [key |-> fs[i].key, nonce |-> nonce]]

\* the calls param(nonce) made while the document is evaluated: one per visit
\* whose rule is an env rule with a function-valued entry
Invocations(entries, log, nonce) ==
    LET called(v) == /\ EntryOfRule(entries, v.rule) # <<>>
                     /\ EntryOfRule(entries, v.rule)[1].value.type = "function"
        vs == SelectSeq(log, called)
    IN  [i \in 1..Len(vs) |-> [key |-> vs[i].identifier, nonce |-> nonce]]

\* uuidv4(): a nonce that was not handed out before
uuidv4(issued) == Cardinality(issued) + 1

\* what a call that reached MacroEngine.parseDocument leaves behind: the
\* string r.result it returns, the env object, the rule list and the calls
\* of function-valued entries
Outcome(populated, rules, r, nonce) ==
    [result |-> r.result, env |-> populated, macros |-> rules,
     visits |-> r.visits, errors |-> r.errors, nonce |-> <<nonce>>,
     invocations |-> Invocations(populated.entries, r.visits, nonce)]

\* return MacroEngine.parseDocument(content, macros)
evaluateWith(content, populated, rules, nonce) ==
    Outcome(populated, rules, parseDocument(content, rules), nonce)

\* variant: the env rules come first in the rule list
evaluateMacrosEnvFirst(content, env, map, nonce) ==
    IF content = <<>>
    THEN [result |-> <<>>, env |-> env, macros |-> <<>>, visits |-> <<>>,
          errors |-> <<>>, nonce |-> <<>>, invocations |-> <<>>]
    ELSE LET populated == populateEnv(env, map)
         IN  evaluateWith(content, populated,
                          envMacros(populated.entries) \o preEnvMacros \o postEnvMacros,
                          nonce)

\* evaluateMacros(content, env): what it returns, the env object after the
\* call, the rule list it built and the calls of function-valued entries
evaluateMacros(content, env, map, nonce) ==
    IF content = <<>>
    THEN [result |-> <<>>, env |-> env, macros |-> <<>>, visits |-> <<>>,
          errors |-> <<>>, nonce |-> <<>>, invocations |-> <<>>]
    ELSE LET populated == populateEnv(env, map)
         IN  evaluateWith(content, populated,
                          preEnvMacros \o envMacros(populated.entries) \o postEnvMacros,
                          nonce)

----------------------------------------------------------------------------
(* tabbyModelLoader.js: readStream. The stream is the sequence of packets   *)
(* the reader has not delivered yet; a packet is "progress", "finished",    *)
(* "error" (it has an error member) or "garbage" (its data is not JSON).    *)
(* After the last packet reader.read() reports done with no value.          *)

\* one invocation of readStream(reader, progressContainer, soFar, times):
\* what is left of the stream, the counter passed on, the display of the
\* progress container, and whether another invocation was scheduled
\* ("reading"), the function returned for good ("returned") or threw ("threw")
readStream(packets, container, count, expected) ==
    LET done == packets = <<>>
        again(c, d) == [stream |-> IF done THEN packets ELSE Tail(packets),
                        soFar |-> c, progressContainer |-> d, reader |-> "reading"]
    IN  IF done /\ count = expected
        THEN [stream |-> packets, soFar |-> count, progressContainer |-> "none",
              reader |-> "returned"]
        ELSE IF done THEN again(count, container)                   \* !value
        ELSE IF Head(packets) = "garbage" THEN again(count, container)
        ELSE IF Head(packets) = "error"
        THEN [stream |-> Tail(packets), soFar |-> count, progressContainer |-> "none",
              reader |-> "threw"]
        ELSE IF Head(packets) = "finished"
        THEN again(count + 1, IF count = expected - 1 THEN "none" ELSE container)
        ELSE again(count, container)

----------------------------------------------------------------------------
(* macros.js: MacrosParser.registerMacro and unregisterMacro.               *)
(* A JavaScript value is [type, value]; a key is valid when it is a string  *)
(* that is not empty after trimming.                                        *)

StartsWith(s, p) == Len(s) >= Len(p) /\ SubSeq(s, 1, Len(p)) = p
EndsWith(s, p) == Len(s) >= Len(p) /\ SubSeq(s, Len(s) - Len(p) + 1, Len(s)) = p

Without(map, key) == [k \in DOMAIN map \ {key} |-> map[k]]
With(map, key, value) ==
    [k \in DOMAIN map \cup {key} |-> IF k = key THEN value ELSE map[k]]

\* variant: an already registered key keeps its value
registerMacroKeepFirst(map, key, value) ==
    IF key.type # "string" THEN [threw |-> TRUE, map |-> map, warned |-> {}]
    ELSE LET k == Trim(key.value) IN
    IF k = <<>> THEN [threw |-> TRUE, map |-> map, warned |-> {}]
    ELSE IF StartsWith(k, <<"{", "{">>) \/ EndsWith(k, <<"}", "}">>)
    THEN [threw |-> TRUE, map |-> map, warned |-> {}]
    ELSE LET convert == value.type \notin {"string", "function"}
             v == IF convert
                  THEN [type |-> "string", value |-> sanitizeMacroValue(value).result]
                  ELSE value
         IN  IF convert /\ sanitizeMacroValue(value).threw
             THEN [threw |-> TRUE, map |-> map, warned |-> {"converted"}]
             ELSE
             [threw |-> FALSE,
              map |-> IF k \in DOMAIN map THEN map ELSE With(map, k, v),
              warned |-> (IF convert THEN {"converted"} ELSE {})
                             \cup (IF k \in DOMAIN map THEN {"registered"} ELSE {})]

\* registerMacro(key, value): whether it threw, #macros after the call and
\* the warnings it logged
registerMacro(map, key, value) ==
    IF key.type # "string" THEN [threw |-> TRUE, map |-> map, warned |-> {}]
    ELSE LET k == Trim(key.value) IN
    IF k = <<>> THEN [threw |-> TRUE, map |-> map, warned |-> {}]
    ELSE IF StartsWith(k, <<"{", "{">>) \/ EndsWith(k, <<"}", "}">>)
    THEN [threw |-> TRUE, map |-> map, warned |-> {}]
    ELSE LET convert == value.type \notin {"string", "function"}
             v == IF convert
                  THEN [type |-> "string", value |-> sanitizeMacroValue(value).result]
                  ELSE value
         IN  IF convert /\ sanitizeMacroValue(value).threw
             THEN [threw |-> TRUE, map |-> map, warned |-> {"converted"}]
             ELSE
             [threw |-> FALSE,
              map |-> With(map, k, v),
              warned |-> (IF convert THEN {"converted"} ELSE {})
                             \cup (IF k \in DOMAIN map THEN {"registered"} ELSE {})]

\* unregisterMacro(key)
unregisterMacro(map, key) ==
    IF key.type # "string" THEN [threw |-> TRUE, map |-> map, warned |-> {}]
    ELSE LET k == Trim(key.value) IN
    IF k = <<>> THEN [threw |-> TRUE, map |-> map, warned |-> {}]
    ELSE [threw |-> FALSE,
          map |-> Without(map, k),
          warned |-> IF k \in DOMAIN map THEN {} ELSE {"not registered"}]

----------------------------------------------------------------------------
(* Inputs *)

MaxParts == 3    \* top-level parts of a generated document
MaxFrags == 3    \* fragments in the argument section of a generated macro

SeqsUpTo(S, n) == UNION {[1..k -> S] : k \in 0..n}

\* top-level building blocks: plaintext, well-formed macros (plain, padded,
\* nested, two arguments the first of which starts with a colon) and
\* malformed ones (unterminated, missing identifier)
TopParts ==
    { <<"p">>,
      <<"{", "{", "a", "}", "}">>,
      <<"{", "{", " ", "b", " ", "}", "}">>,
      <<"{", "{", "a", ":", ":", "p", " ", "{", "{", "b", "}", "}", "}", "}">>,
      <<"{", "{", "a", ":", ":", "{", "{", "b", ":", "{", "{", "a", "}", "}", "}", "}", "}", "}">>,
      <<"{", "{", "a", ":", ":", ":", "a", ":", ":", "b", "}", "}">>,
      <<"{", "{", "a">>,
      <<"{", "{", "}", "}">> }

\* building blocks of an argument section
ArgFrags ==
    { <<"a">>, <<"b">>, <<":">>, <<":", ":">>, <<" ">>, <<"!">>,
      <<"{", "{", "b", "}", "}">> }

Separators == { <<":">>, <<":", ":">> }

Documents == {Flatten(ps) : ps \in SeqsUpTo(TopParts, MaxParts)}

\* `{{a` separator fragments `}}`
MacroText(sep, frags) == <<"{", "{", "a">> \o sep \o Flatten(frags) \o <<"}", "}">>

MacroDocuments ==
    {MacroText(sep, fs) : sep \in Separators, fs \in SeqsUpTo(ArgFrags, MaxFrags)}

\* macros that are not of the shape `{{` identifier [arguments] `}}`
MalformedMacros ==
    { <<"{", "{", "}", "}">>,
      <<"{", "{", "{", "{", "b", "}", "}", ":", ":", "a", "}", "}">>,
      <<"{", "{", "a", "{", "{", "b", "}", "}", "a", "}", "}">>,
      <<"{", "{", "a">> }

TestInputs == Documents \cup MacroDocuments \cup MalformedMacros

MaxPicks == 3    \* calls of the pick macro's callback in one behaviour
MaxCalls == 3    \* calls of registerMacro / unregisterMacro in one behaviour

ChatIds == { <<"a">>, <<"b">> }

ChatMetadatas ==
    [chat_id_hash : {<<>>} \cup {<<h>> : h \in {getStringHash(c) : c \in ChatIds}},
     main_chat : {<<>>} \cup {<<c>> : c \in ChatIds}]

\* the MacroReplaceArgs objects handed to the pick macro
PickMacros ==
    [args : { <<>>, << <<"x">>, <<"y">> >>, << <<"x">>, <<"y">>, <<"p">> >> },
     offset : {0, 1},
     document : { <<"a">>, <<"b">> }]

\* the MacroReplaceArgs objects handed to the random macro, which reads args only
RandomMacros == {m \in PickMacros : m.offset = 0 /\ m.document = <<"a">>}

JsString(s) == [type |-> "string", value |-> s]

RegistryKeys ==
    { JsString(<<"a">>), JsString(<<" ", "a">>), JsString(<<"b">>), JsString(<<" ">>),
      JsString(<<"{", "{", "a">>), [type |-> "null", value |-> <<>>] }

RegistryValues ==
    { JsString(<<"x">>), [type |-> "function", value |-> <<"(", ")", "=", ">", "1">>],
      [type |-> "null", value |-> <<>>] }

MaxEvaluations == 2   \* evaluateMacros calls that generate a nonce

JsFunction(returns) ==
    [type |-> "function", value |-> <<"(", ")", "=", ">", "1">>, returns |-> returns]

\* what an env entry can hold or a function-valued entry can return
EnvValues ==
    { JsString(<<"x">>),
      [type |-> "null", value |-> <<>>],
      [type |-> "undefined", value |-> <<>>],
      [type |-> "promise", value |-> <<>>],
      [type |-> "function", value |-> <<"(", ")", "=", ">", "1">>],
      [type |-> "date", value |-> <<2024, 2, 9>>],
      [type |-> "date", value |-> <<>>],
      [type |-> "object", value |-> << <<"a", 1>>, <<"b", 20>> >>, cyclic |-> FALSE],
      [type |-> "object", value |-> <<>>, cyclic |-> TRUE],
      [type |-> "number", value |-> 7],
      [type |-> "boolean", value |-> TRUE] }

\* an entry holds a value that is not a function, or a function returning a value
EnvEntries ==
    {v \in EnvValues : v.type # "function"} \cup {JsFunction(v) : v \in EnvValues}

ObjectEnv(entries) == [type |-> "object", entries |-> entries]
Entry(key, value) == [key |-> key, value |-> value]

NOOP == <<"n", "o", "o", "p">>
REVERSE == <<"r", "e", "v", "e", "r", "s", "e">>

Braced(body) == <<"{", "{">> \o body \o <<"}", "}">>

\* {{u}}, p{{u}}{{u}}, p, {{u, {{noop}}{{reverse::ab}}{{u}} and the empty string
EvalContents ==
    { Braced(<<"u">>),
      <<"p">> \o Braced(<<"u">>) \o Braced(<<"u">>),
      <<"p">>,
      <<"{", "{", "u">>,
      Braced(NOOP) \o Braced(REVERSE \o <<":", ":", "a", "b">>) \o Braced(<<"u">>),
      <<>> }

\* the env object a caller builds: a string entry, a function-valued entry,
\* entries named like built-ins, no entries
SmallEnvs ==
    { ObjectEnv(<<>>),
      ObjectEnv(<<Entry(<<"u">>, JsString(<<"x">>))>>),
      ObjectEnv(<<Entry(<<"u">>, JsFunction(JsString(<<"y">>)))>>),
      ObjectEnv(<<Entry(NOOP, JsString(<<"x">>)),
                  Entry(REVERSE, JsFunction(JsString(<<"y">>))),
                  Entry(<<"u">>, JsString(<<"x">>))>>) }

EvalInputs ==
    {[content |-> Braced(<<"u">>), env |-> ObjectEnv(<<Entry(<<"u">>, e)>>)] :
         e \in EnvEntries}
        \cup [content : EvalContents, env : SmallEnvs]

\* what the application registers before it evaluates
EnvRegistrations ==
    [key : {JsString(<<"u">>), JsString(NOOP), JsString(REVERSE)},
     value : {JsString(<<"r">>), JsFunction(JsString(<<"r">>))}]

\* the rules of the call made from inside a callback
InnerRules ==
    << [name |-> [isArray |-> FALSE, value |-> << <<"a">> >>],
        replace |-> [kind |-> "return", value |-> <<"x">>]] >>

\* the documents of that call: {{a}}, p{{a}}, {{a and {{a::}}
InnerDocuments ==
    { Braced(<<"a">>),
      <<"p">> \o Braced(<<"a">>),
      <<"{", "{", "a">>,
      Braced(<<"a", ":", ":">>) }

\* a rule named a whose callback calls the engine again, alone, before and
\* after a rule named b
ReentrantRuleLists ==
    LET again(text) == [name |-> [isArray |-> FALSE, value |-> << <<"a">> >>],
                        replace |-> [kind |-> "reenter", value |-> text]]
        plain == [name |-> [isArray |-> FALSE, value |-> << <<"b">> >>],
                  replace |-> [kind |-> "return", value |-> <<"y">>]]
    IN  UNION { { <<again(t)>>, <<again(t), plain>>, <<plain, again(t)>> } :
                    t \in InnerDocuments }

\* {{a}}, p{{a}}{{b}}, {{b}}, {{b::{{a}}}}, {{a}}{{a}}, {{a and p
ReentrantDocuments ==
    { Braced(<<"a">>),
      <<"p">> \o Braced(<<"a">>) \o Braced(<<"b">>),
      Braced(<<"b">>),
      Braced(<<"b", ":", ":">> \o Braced(<<"a">>)),
      Braced(<<"a">>) \o Braced(<<"a">>),
      <<"{", "{", "a">>,
      <<"p">> }

\* what the callbacks that called the engine again got back, by text
InnerResults(returned) ==
    [text \in InnerDocuments |-> IF returned = <<>> THEN <<>> ELSE returned[1].result]

\* packets of a model load stream
MaxPackets == 3

Packets == {"progress", "finished", "error", "garbage"}

Streams == SeqsUpTo(Packets, MaxPackets)

\* calls made one after the other on the same engine
MaxSequence == 3

SequenceDocuments ==
    { Braced(<<"a">>),
      <<"p">> \o Braced(<<"a">>),
      <<"{", "{", "a">>,
      Braced(<<"a", ":", ":">>),
      Braced(<<"a", ":", ":", "b">>),
      <<"p">> }

RuleNames ==
    { [isArray |-> FALSE, value |-> << <<"a">> >>],
      [isArray |-> FALSE, value |-> << <<"b">> >>],
      [isArray |-> TRUE,  value |-> << <<"b">>, <<"a">> >>] }

Replaces ==
    { [kind |-> "return", value |-> <<"x">>],
      [kind |-> "return", value |-> <<>>],
      [kind |-> "throw",  value |-> <<>>] }

Rules == [name : RuleNames, replace : Replaces]

\* callbacks that hand back something other than a string
NonStringReplaces ==
    { [kind |-> "null",      value |-> <<>>],
      [kind |-> "undefined", value |-> <<>>],
      [kind |-> "function",  value |-> <<"(", ")", "=", ">", "1">>],
      [kind |-> "promise",   value |-> <<>>] }

NonStringRules == [name : RuleNames, replace : NonStringReplaces]

\* something{{a}}, {{a}}, {{a, {{a}}p, {{a::b}} and p
RetestInputs ==
    { <<"p">> \o Braced(<<"a">>),
      Braced(<<"a">>),
      <<"{", "{", "a">>,
      Braced(<<"a">>) \o <<"p">>,
      Braced(<<"a", ":", ":", "b">>),
      <<"p">> }

SequenceRuleLists ==
    { <<>>,
      << [name |-> [isArray |-> FALSE, value |-> << <<"a">> >>],
          replace |-> [kind |-> "return", value |-> <<"x">>]] >>,
      << [name |-> [isArray |-> FALSE, value |-> << <<"a">> >>],
          replace |-> [kind |-> "throw", value |-> <<>>]] >> }

RuleLists == {<<>>} \cup {<<r>> : r \in Rules} \cup {<<r, s>> : r, s \in Rules}

----------------------------------------------------------------------------
(* Behaviour *)

Init ==
    /\ pc = "idle"
    /\ input = <<>>
    /\ macros = <<>>
    /\ parserErrors = <<>>
    /\ cst = <<>>
    /\ result = <<>>
    /\ visits = <<>>
    /\ nodes = <<>>
    /\ chat_metadata = [chat_id_hash |-> <<>>, main_chat |-> <<>>]
    /\ currentChatId = <<"a">>
    /\ picks = <<>>
    /\ registered = <<>>
    /\ calls = <<>>
    /\ earlier = <<>>
    /\ inner = <<>>
    /\ lastRandom = <<>>
    /\ nonces = {}
    /\ evaluations = <<>>
    /\ stream = <<>>
    /\ times = 0
    /\ soFar = 0
    /\ reader = "none"
    /\ progressContainer = "none"

Call(text, rules) ==
    /\ pc' = "called"
    /\ input' = text
    /\ macros' = rules
    /\ UNCHANGED <<parserErrors, cst, result, visits, nodes>>
    /\ UNCHANGED <<earlier, inner, chatVars, registryVars, evalVars, streamVars>>

\* a caller hands a whole document to the engine
CallDocument ==
    /\ pc = "idle"
    /\ \E text \in Documents, rules \in RuleLists : Call(text, rules)

\* a caller hands a single macro with an argument section to the engine
CallMacro ==
    /\ pc = "idle"
    /\ \E text \in MacroDocuments, rules \in RuleLists : Call(text, rules)

\* MacroEngine.parseDocument(input, macros), run to its return
ParseDocument ==
    /\ pc = "called"
    /\ \E r \in {parseDocument(input, macros)} :
        /\ result' = r.result
        /\ parserErrors' = r.errors
        /\ cst' = r.cst
        /\ visits' = r.visits
        /\ nodes' = r.nodes
    /\ pc' = "returned"
    /\ UNCHANGED <<input, macros, earlier, inner>>
    /\ UNCHANGED <<chatVars, registryVars, evalVars, streamVars>>

\* a caller hands over a document and one rule whose callback returns a
\* value that is not a string
CallNonString ==
    /\ pc = "idle"
    /\ \E text \in Documents, rule \in NonStringRules : Call(text, <<rule>>)

\* MacroParser.test(input), run to its return
Test ==
    /\ pc = "idle"
    /\ \E text \in TestInputs :
        /\ input' = text
        /\ \E r \in {test(text)} :
            /\ cst' = r.cst
            /\ parserErrors' = r.errors
    /\ pc' = "tested"
    /\ UNCHANGED <<macros, result, visits, nodes, earlier, inner>>
    /\ UNCHANGED <<chatVars, registryVars, evalVars, streamVars>>

Next == CallDocument \/ CallMacro \/ ParseDocument

NextTest == Test

SpecTest == Init /\ [][NextTest]_vars

\* the callback of the pick macro, called with one MacroReplaceArgs object
PickReplace ==
    /\ Len(picks) < MaxPicks
    /\ \E macro \in PickMacros :
        IF Len(macro.args) = 0
        THEN /\ picks' = Append(picks, [chatIdHash |-> <<>>, macro |-> macro,
                                        index |-> <<>>, result |-> <<>>])
             /\ UNCHANGED chat_metadata
        ELSE LET h == getChatIdHash(chat_metadata, currentChatId) IN
             \E u \in seedrandom(FinalSeed(h.value, macro)) :
                 /\ picks' = Append(picks,
                        [chatIdHash |-> <<h.value>>, macro |-> macro,
                         index |-> <<RandomIndex(u, macro.args)>>,
                         result |-> ArrayGet(macro.args, RandomIndex(u, macro.args))])
                 /\ chat_metadata' = h.meta
    /\ UNCHANGED <<currentChatId, lastRandom, engineVars, registryVars, evalVars, streamVars>>

\* the application loads, renames or branches a chat between evaluations
ChatChanges ==
    /\ Len(picks) < MaxPicks
    /\ \E meta \in ChatMetadatas, id \in ChatIds :
        /\ <<meta, id>> # <<chat_metadata, currentChatId>>
        /\ chat_metadata' = meta
        /\ currentChatId' = id
    /\ UNCHANGED <<picks, lastRandom, engineVars, registryVars, evalVars, streamVars>>

\* the replace callback of the random macro, called with a macro: the
\* generator is seeded with added entropy, so its output can be any
RandomReplace ==
    /\ \E macro \in RandomMacros :
        IF Len(macro.args) = 0
        THEN lastRandom' = <<[macro |-> macro, index |-> <<>>, result |-> <<>>]>>
        ELSE \E u \in EntropySeeded :
                 lastRandom' = <<[macro |-> macro,
                                  index |-> <<RandomIndex(u, macro.args)>>,
                                  result |-> ArrayGet(macro.args,
                                                      RandomIndex(u, macro.args))]>>
    /\ UNCHANGED <<chat_metadata, currentChatId, picks>>
    /\ UNCHANGED <<engineVars, registryVars, evalVars, streamVars>>

NextPick == PickReplace \/ ChatChanges

SpecPick == Init /\ [][NextPick]_vars

NextRandom == RandomReplace \/ PickReplace

SpecRandom == Init /\ [][NextRandom]_vars

\* MacrosParser.registerMacro(key, value), run to its return or its throw
RegisterMacro ==
    /\ Len(calls) < MaxCalls
    /\ \E key \in RegistryKeys, value \in RegistryValues :
        LET r == registerMacro(registered, key, value) IN
        /\ registered' = r.map
        /\ calls' = Append(calls, [op |-> "register", key |-> key, value |-> value,
                                    threw |-> r.threw, warned |-> r.warned])
    /\ UNCHANGED <<engineVars, chatVars, evalVars, streamVars>>

\* MacrosParser.unregisterMacro(key), run to its return or its throw
UnregisterMacro ==
    /\ Len(calls) < MaxCalls
    /\ \E key \in RegistryKeys :
        LET r == unregisterMacro(registered, key) IN
        /\ registered' = r.map
        /\ calls' = Append(calls, [op |-> "unregister", key |-> key,
                                    value |-> [type |-> "undefined", value |-> <<>>],
                                    threw |-> r.threw, warned |-> r.warned])
    /\ UNCHANGED <<engineVars, chatVars, evalVars, streamVars>>

NextRegistry == RegisterMacro \/ UnregisterMacro

SpecRegistry == Init /\ [][NextRegistry]_vars

\* the application registers one macro before it evaluates
RegisterEnvMacro ==
    /\ calls = <<>>
    /\ \E reg \in EnvRegistrations :
        LET r == registerMacro(registered, reg.key, reg.value) IN
        /\ registered' = r.map
        /\ calls' = Append(calls, [op |-> "register", key |-> reg.key,
                                    value |-> reg.value,
                                    threw |-> r.threw, warned |-> r.warned])
    /\ UNCHANGED <<engineVars, chatVars, evalVars, streamVars>>

\* evaluateMacros(content, env), run to its return
EvaluateMacros ==
    /\ Cardinality(nonces) < MaxEvaluations
    /\ \E in \in EvalInputs :
        \E r \in {evaluateMacros(in.content, in.env, registered, uuidv4(nonces))} :
            /\ evaluations' = <<[content |-> in.content, given |-> in.env,
                                  registry |-> registered,
                                  env |-> r.env, macros |-> r.macros,
                                  visits |-> r.visits, errors |-> r.errors,
                                  nonce |-> r.nonce, invocations |-> r.invocations,
                                  result |-> r.result]>>
            /\ nonces' = IF r.nonce = <<>> THEN nonces
                         ELSE nonces \cup {uuidv4(nonces)}
    /\ UNCHANGED <<engineVars, chatVars, registryVars, streamVars>>

NextEvaluate == RegisterEnvMacro \/ EvaluateMacros

SpecEvaluate == Init /\ [][NextEvaluate]_vars

\* a caller hands a document to the engine that other calls used before
CallAgain ==
    /\ pc \in {"idle", "returned"}
    /\ Len(earlier) < MaxSequence
    /\ \E text \in SequenceDocuments, rules \in SequenceRuleLists :
        /\ input' = text
        /\ macros' = rules
    /\ earlier' = IF pc = "returned"
                  THEN Append(earlier, [input |-> input, failed |-> parserErrors # <<>>])
                  ELSE earlier
    /\ pc' = "called"
    /\ UNCHANGED <<parserErrors, cst, result, visits, nodes, inner>>
    /\ UNCHANGED <<chatVars, registryVars, evalVars, streamVars>>

\* MacroEngine.parseDocument(input, macros) on the shared instance, run to
\* its return
ParseDocumentOnInstance ==
    /\ pc = "called"
    /\ \E r \in {parseDocumentOnInstance([input |-> <<>>, errors |-> parserErrors],
                                         input, macros)} :
        /\ result' = r.result
        /\ parserErrors' = r.errors
        /\ cst' = r.cst
        /\ visits' = r.visits
        /\ nodes' = r.nodes
    /\ pc' = "returned"
    /\ UNCHANGED <<input, macros, earlier, inner>>
    /\ UNCHANGED <<chatVars, registryVars, evalVars, streamVars>>

\* MacroParser.test(input) on the shared parser, run to its return
TestOnInstance ==
    /\ pc \in {"idle", "tested"}
    /\ Len(earlier) < MaxSequence
    /\ \E text \in RetestInputs :
        /\ input' = text
        /\ \E r \in {testOnInstance([input |-> <<>>, errors |-> parserErrors], text)} :
            /\ cst' = r.cst
            /\ parserErrors' = r.errors
    /\ earlier' = IF pc = "tested"
                  THEN Append(earlier, [input |-> input, failed |-> parserErrors # <<>>])
                  ELSE earlier
    /\ pc' = "tested"
    /\ UNCHANGED <<macros, result, visits, nodes, inner>>
    /\ UNCHANGED <<chatVars, registryVars, evalVars, streamVars>>

NextRetest == TestOnInstance

SpecRetest == Init /\ [][NextRetest]_vars

\* the model load request was answered with a stream: the container is
\* shown and readStream is called with soFar = 0 and times = 2 when a draft
\* model is loaded too, else 1
StartLoad ==
    /\ reader = "none"
    /\ \E packets \in Streams, draftModelValue \in BOOLEAN :
        /\ stream' = packets
        /\ times' = IF draftModelValue THEN 2 ELSE 1
    /\ soFar' = 0
    /\ progressContainer' = "block"
    /\ reader' = "reading"
    /\ UNCHANGED <<engineVars, chatVars, registryVars, evalVars>>

\* one invocation of readStream, the first or one scheduled with
\* requestAnimationFrame
ReadStream ==
    /\ reader = "reading"
    /\ \E r \in {readStream(stream, progressContainer, soFar, times)} :
        /\ stream' = r.stream
        /\ soFar' = r.soFar
        /\ progressContainer' = r.progressContainer
        /\ reader' = r.reader
    /\ UNCHANGED times
    /\ UNCHANGED <<engineVars, chatVars, registryVars, evalVars>>

NextStream == StartLoad \/ ReadStream

SpecStream == Init /\ [][NextStream]_vars

\* the browser runs every callback scheduled with requestAnimationFrame
SpecStreamFair == SpecStream /\ WF_vars(ReadStream)

\* a caller hands over a document and rules one of which calls the engine
\* again from its callback
CallReentrant ==
    /\ pc = "idle"
    /\ \E text \in ReentrantDocuments, rules \in ReentrantRuleLists :
        /\ input' = text
        /\ macros' = rules
    /\ pc' = "called"
    /\ UNCHANGED <<parserErrors, cst, result, visits, nodes, earlier, inner>>
    /\ UNCHANGED <<chatVars, registryVars, evalVars, streamVars>>

\* the first half of the outer parseDocument: tokenize, this.parser.input,
\* this.parser.document(), and the early return on parsing errors
ParseOuter ==
    /\ pc = "called"
    /\ LET set == SetInput([input |-> <<>>, errors |-> parserErrors], tokenize(input))
           parsed == document(set.input)
           errors == set.errors \o parsed.errors
       IN  /\ parserErrors' = errors
           /\ cst' = parsed.cst
           /\ IF Len(errors) > 0
              THEN result' = input /\ pc' = "returned"
              ELSE result' = result /\ pc' = "visiting"
    /\ UNCHANGED <<input, macros, visits, nodes, earlier, inner>>
    /\ UNCHANGED <<chatVars, registryVars, evalVars, streamVars>>

\* the rule that calls the engine again is the one a macro of the document
\* resolves to
Reenters(k) ==
    /\ macros[k].replace.kind = "reenter"
    /\ LET nothing == [text \in InnerDocuments |-> <<>>]
       IN  \E log \in {visitDocument(cst[1], input, Resolve(macros, nothing)).log} :
               \E i \in 1..Len(log) : log[i].rule = k

\* while the outer call visits its CST, a callback calls parseDocument on
\* the same engine and parser
Reenter ==
    /\ pc = "visiting"
    /\ inner = <<>>
    /\ \E k \in 1..Len(macros) :
        /\ Reenters(k)
        /\ \E r \in {parseDocumentOnInstance([input |-> <<>>, errors |-> parserErrors],
                                             macros[k].replace.value, InnerRules)} :
            /\ parserErrors' = r.errors
            /\ inner' = <<[text |-> macros[k].replace.value, result |-> r.result,
                           errors |-> r.errors]>>
    /\ UNCHANGED <<pc, input, macros, cst, result, visits, nodes, earlier>>
    /\ UNCHANGED <<chatVars, registryVars, evalVars, streamVars>>

\* the outer call finishes its visit and returns
ReturnOuter ==
    /\ pc = "visiting"
    /\ inner # <<>> \/ ~\E k \in 1..Len(macros) : Reenters(k)
    /\ \E r \in {visitOnInstance([input |-> <<>>, errors |-> parserErrors], cst, input,
                                 Resolve(macros, InnerResults(inner)))} :
        /\ result' = r.result
        /\ visits' = r.visits
        /\ nodes' = r.nodes
    /\ pc' = "returned"
    /\ UNCHANGED <<input, macros, parserErrors, cst, earlier, inner>>
    /\ UNCHANGED <<chatVars, registryVars, evalVars, streamVars>>

NextReentrant == CallReentrant \/ ParseOuter \/ Reenter \/ ReturnOuter

SpecReentrant == Init /\ [][NextReentrant]_vars

NextSequence == CallAgain \/ ParseDocumentOnInstance

SpecSequence == Init /\ [][NextSequence]_vars

NextNonString == CallNonString \/ ParseDocument

SpecNonString == Init /\ [][NextNonString]_vars

Spec == Init /\ [][Next]_vars

----------------------------------------------------------------------------
(* Vocabulary of the properties *)

Returned == pc = "returned"
ParseFailed == Len(parserErrors) > 0
Parsed == Returned /\ ~ParseFailed

OPEN == <<"{", "{">>
CLOSE == <<"}", "}">>
DCOLON == <<":", ":">>

\* s occurs in t as a contiguous substring
Occurs(s, t) ==
    \E k \in 0..(Len(t) - Len(s)) : SubSeq(t, k + 1, k + Len(s)) = s

\* "::" arg1 "::" arg2 ...
RECURSIVE EachPrefixed(_)
EachPrefixed(args) ==
    IF args = <<>> THEN <<>> ELSE DCOLON \o Head(args) \o EachPrefixed(Tail(args))

\* the unresolved-macro serialization `{{identifier}}` / `{{identifier::arg1::arg2}}`
Tag(identifier, args) == OPEN \o identifier \o EachPrefixed(args) \o CLOSE

\* the visits that invoked a rule's replace
Invoked(v) == v.rule # 0

\* v is a top-level macro of the document; its emitted fragment
IsTopLevel(v) ==
    \E k \in 1..Len(nodes) :
        nodes[k].type = "macro" /\ nodes[k].startOffset = v.location.startOffset
Fragment(v) ==
    nodes[CHOOSE k \in 1..Len(nodes) :
        nodes[k].type = "macro" /\ nodes[k].startOffset = v.location.startOffset].content

\* the macro of visit w lies inside the macro of visit v
NestedIn(w, v) ==
    /\ v.location.startOffset < w.location.startOffset
    /\ w.location.endOffset < v.location.endOffset

\* the document is exactly one macro
WholeDocument(v) ==
    v.location.startOffset = 0 /\ v.location.endOffset = Len(input) - 1

----------------------------------------------------------------------------
(* C1: if parsing the document reports any error, parseDocument returns the *)
(* input text unchanged and no rule's replace callback has been invoked,    *)
(* even when the document also holds well-formed macros with matching rules *)
C1_ErrorReturnsInput ==
    (Returned /\ ParseFailed) =>
        /\ result = input
        /\ \A i \in 1..Len(visits) : ~Invoked(visits[i])

\* a failed parse of a document that starts with the well-formed {{a}},
\* for which a rule exists
C1_Witness ==
    /\ Returned /\ ParseFailed
    /\ Len(input) > 5
    /\ SubSeq(input, 1, 5) = OPEN \o <<"a">> \o CLOSE
    /\ FindMatching(macros, <<"a">>) # 0

(* C2: for every document consisting of one well-formed macro {{name::a::b}} *)
(* whose matching rule returns the string R, parseDocument returns exactly R *)
TwoArgumentMacros ==
    {MacroText(DCOLON, <<f, DCOLON, g>>) : f, g \in {<<"a">>, <<"b">>}}

C2_ReturnsRuleResult ==
    (Returned /\ input \in TwoArgumentMacros) =>
        LET k == FindMatching(macros, <<"a">>) IN
        (k # 0 /\ macros[k].replace.kind = "return") =>
            result = macros[k].replace.value

----------------------------------------------------------------------------
\* w is nested directly in v (no macro in between)
DirectChild(w, v) ==
    /\ NestedIn(w, v)
    /\ ~\E k \in 1..Len(visits) : NestedIn(w, visits[k]) /\ NestedIn(visits[k], v)

HasRawSyntax(args) == \E a \in 1..Len(args) : Occurs(OPEN, args[a])

RECURSIVE CountOpen(_, _)
CountOpen(text, i) ==
    IF i + 1 > Len(text) THEN 0
    ELSE IF text[i] = "{" /\ text[i + 1] = "{" THEN 1 + CountOpen(text, i + 2)
    ELSE CountOpen(text, i + 1)

PlaintextVerbatim ==
    \A k \in 1..Len(nodes) :
        nodes[k].type = "plaintext" =>
            nodes[k].content =
                SubSeq(input, nodes[k].startOffset + 1,
                       nodes[k].startOffset + Len(nodes[k].content))

Named(k, identifier) ==
    IF macros[k].name.isArray
    THEN identifier \in {macros[k].name.value[n] : n \in 1..Len(macros[k].name.value)}
    ELSE macros[k].name.value = <<identifier>>

(* C6: a macro is resolved against the rule list in caller-supplied order   *)
(* by exact name or alias membership; the first matching rule is the only   *)
(* one invoked, once; a later rule with the same name is never invoked      *)
C6_FirstMatchWins ==
    Returned =>
        \A i \in 1..Len(visits) :
            LET v == visits[i] IN
            /\ v.rule = 0 => \A k \in 1..Len(macros) : ~Named(k, v.identifier)
            /\ v.rule # 0 =>
                /\ v.rule \in 1..Len(macros)
                /\ Named(v.rule, v.identifier)
                /\ \A k \in 1..(v.rule - 1) : ~Named(k, v.identifier)
                /\ v.outcome = "returned" => v.value = macros[v.rule].replace.value
                /\ v.outcome = "threw" <=> macros[v.rule].replace.kind = "throw"
            /\ \A j \in 1..Len(visits) :
                   j # i => visits[j].location # v.location

\* two different rules match the macro, one by name and one by alias;
\* the first was invoked
C6_Witness ==
    /\ Returned
    /\ Len(macros) = 2
    /\ macros[1].name # macros[2].name
    /\ macros[1].replace # macros[2].replace
    /\ \E i \in 1..Len(visits) :
        /\ visits[i].rule = 1
        /\ Named(1, visits[i].identifier) /\ Named(2, visits[i].identifier)

\* index of the first non-whitespace character at or after i
RECURSIVE SkipWhiteSpace(_, _)
SkipWhiteSpace(text, i) ==
    IF i <= Len(text) /\ text[i] \in WhiteSpace THEN SkipWhiteSpace(text, i + 1) ELSE i

\* offset is where `{{ identifier` starts in text
OpensMacro(text, offset, identifier) ==
    /\ offset + 2 <= Len(text)
    /\ SubSeq(text, offset + 1, offset + 2) = OPEN
    /\ LET k == SkipWhiteSpace(text, offset + 3)
       IN  SubSeq(text, k, k + Len(identifier) - 1) = identifier

(* C7: every replace invocation, at any nesting depth, receives as document *)
(* the original input text of the call and as offset the start offset of    *)
(* that macro's own opening {{ in that text                                 *)
C7_OriginalDocumentAndOffset ==
    Returned =>
        \A i \in 1..Len(visits) :
            Invoked(visits[i]) =>
                LET a == visits[i].macroArgs[1] IN
                /\ a.document = input
                /\ OpensMacro(input, a.offset, visits[i].identifier)
                /\ \A j \in 1..Len(visits) :
                       (j # i /\ Invoked(visits[j])) =>
                           visits[j].macroArgs[1].offset # a.offset

\* a replace invoked two levels deep, after an earlier macro of the same
\* document was already substituted by a value of another length
C7_Witness ==
    /\ Returned
    /\ \E i, j, k, h \in 1..Len(visits) :
        /\ Invoked(visits[i])
        /\ NestedIn(visits[i], visits[j]) /\ NestedIn(visits[j], visits[k])
        /\ h < i /\ visits[h].outcome = "returned"
        /\ visits[h].location.endOffset < visits[i].location.startOffset
        /\ visits[i].macroArgs[1].offset > 0

----------------------------------------------------------------------------
(* C8: for a successfully parsed document the output is the concatenation,  *)
(* in ascending start offset, of each plaintext span verbatim and each      *)
(* top-level macro's substituted value                                      *)
C8_OutputIsConcatenation ==
    Parsed =>
        /\ \A k \in 1..(Len(nodes) - 1) : nodes[k].startOffset < nodes[k + 1].startOffset
        /\ PlaintextVerbatim
        /\ \A k \in 1..Len(nodes) :
               nodes[k].type = "macro" =>
                   \E i \in 1..Len(visits) :
                       /\ visits[i].location.startOffset = nodes[k].startOffset
                       /\ nodes[k].content = visits[i].value
        /\ result = Flatten(Contents(nodes))

Identifiers == {<<"a">>, <<"b">>}

\* the arguments of the outermost macro of a one-macro document
OuterArgs == visits[Len(visits)].args

(* C9: {{legacy:something:else}} yields the one argument "something:else",  *)
(* and {{setvar::myvar::value}} yields the two arguments "myvar", "value"   *)
C9_SeparatorExclusivity ==
    Parsed =>
        \A f, g \in Identifiers :
            /\ input = MacroText(<<":">>, <<f, <<":">>, g>>)
                   => OuterArgs = << f \o <<":">> \o g >>
            /\ input = MacroText(DCOLON, <<f, DCOLON, g>>)
                   => OuterArgs = <<f, g>>

\* the argument section of the macro of visit v starts with a single colon
StartsWithSingleColon(v) ==
    LET k == SkipWhiteSpace(input,
                 SkipWhiteSpace(input, v.location.startOffset + 3) + Len(v.identifier))
    IN  /\ k <= Len(input)
        /\ input[k] = ":"
        /\ ~(k + 1 <= Len(input) /\ input[k + 1] = ":")

(* C10: every macro whose argument section starts with a single colon has   *)
(* exactly one argument, whatever the rest of the section contains          *)
C10_SingleColonOneArgument ==
    Parsed =>
        \A i \in 1..Len(visits) :
            StartsWithSingleColon(visits[i]) => Len(visits[i].args) = 1

----------------------------------------------------------------------------
\* the fragments of an argument section that hold no `::` once written out
SingleArgumentFrags ==
    {fs \in SeqsUpTo(ArgFrags \ {DCOLON}, MaxFrags) : ~Occurs(DCOLON, Flatten(fs))}

\* the fragments in source order, each nested macro replaced by its value
InSourceOrder(fs, nested) ==
    Flatten([i \in 1..Len(fs) |-> IF fs[i] = Tag(<<"b">>, <<>>) THEN nested ELSE fs[i]])

(* C11: the argument of {{a::fragments}} is the concatenation of the        *)
(* fragments in source order, nested macros replaced by their values, with  *)
(* only leading and trailing whitespace removed                             *)
C11_ArgumentInSourceOrder ==
    Parsed =>
        \A fs \in SingleArgumentFrags :
            input = MacroText(DCOLON, fs) =>
                OuterArgs = << Trim(InSourceOrder(fs, visits[1].value)) >>

----------------------------------------------------------------------------
(* C12: the value a macro contributes is its rule's return value coerced as *)
(* sanitizeMacroValue does: a string unchanged, and the empty string for    *)
(* null, undefined, a function and a promise                                *)
C12_ReturnValueSanitized ==
    Parsed =>
        \A i \in 1..Len(visits) :
            visits[i].outcome = "returned" =>
                visits[i].value =
                    sanitizeMacroValue(ReturnValue(macros[visits[i].rule].replace)).result

----------------------------------------------------------------------------
\* some rule threw while the document was evaluated
SomeRuleThrew == \E i \in 1..Len(visits) : visits[i].outcome = "threw"

(* C13: when a rule throws, evaluating the output again with the same rules *)
(* yields the same output                                                   *)
C13_FixedPointUnderFailure ==
    (Parsed /\ SomeRuleThrew) => parseDocument(result, macros).result = result

----------------------------------------------------------------------------
Tested == pc = "tested"

\* text starts with `{{`, optional whitespace and a letter, and ends with `}}`
HasMacroShape(text) ==
    /\ Len(text) >= 5
    /\ SubSeq(text, 1, 2) = OPEN
    /\ SubSeq(text, Len(text) - 1, Len(text)) = CLOSE
    /\ LET k == SkipWhiteSpace(text, 3) IN k <= Len(text) /\ text[k] \in Letters

(* C14: a missing identifier, a macro in identifier position, a macro start *)
(* directly after the identifier and a missing closing delimiter each yield *)
(* errors and no CST; whatever is accepted has the shape                    *)
(* `{{` identifier [arguments] `}}`                                         *)
C14_OnlyMacroShapeAccepted ==
    Tested =>
        /\ input \in MalformedMacros => (Len(parserErrors) > 0 /\ cst = <<>>)
        /\ Len(parserErrors) = 0 =>
               /\ HasMacroShape(input)
               /\ cst # <<>>
               /\ cst[1].MacroIdentifier.tokenType = "Macro.Identifier"
               /\ cst[1].MacroEnd.tokenType = "Macro.End"

C14_Witness ==
    /\ Tested
    /\ input = OPEN \o Tag(<<"b">>, <<>>) \o DCOLON \o <<"a">> \o CLOSE
    /\ Len(parserErrors) = 1
    /\ cst = <<>>

----------------------------------------------------------------------------
\* token p is a separator of an argument list: any `::`, or the `:` that
\* directly follows the macro's identifier
IsSeparator(toks, p) ==
    \/ toks[p].tokenType = "Args.DoubleColon"
    \/ /\ toks[p].tokenType = "Args.Colon"
       /\ p > 1
       /\ toks[p - 1].tokenType = "Macro.Identifier"

\* a separator is directly followed by the next `::` or by the macro's end
HasEmptySegment(toks) ==
    \E p \in 1..Len(toks) :
        /\ IsSeparator(toks, p)
        /\ LA(toks, p + 1).tokenType \in {"Args.DoubleColon", "Macro.End"}

(* C15: a separator with nothing between it and the next `::` or the macro  *)
(* end is a parse error: there is no CST and the input is returned unchanged *)
C15_EmptySegmentRejected ==
    Returned =>
        /\ HasEmptySegment(tokenize(input)) =>
               (ParseFailed /\ cst = <<>> /\ result = input /\ visits = <<>>)
        /\ input = MacroText(DCOLON, <<>>) => (ParseFailed /\ result = input)

C15_Witness ==
    /\ Returned
    /\ input = MacroText(DCOLON, <<DCOLON, <<"b">> >>)
    /\ HasEmptySegment(tokenize(input))
    /\ parserErrors[1].name = "EarlyExitException"
    /\ cst = <<>>
    /\ result = input

----------------------------------------------------------------------------
PlainOrNothing == {<<>>, <<"p">>}

(* C16: text before or after a well-formed macro is plaintext, not a parse  *)
(* error: something{{a}} with a rule for a returning R yields something R   *)
C16_PlaintextAroundMacro ==
    Returned =>
        \A before, after \in PlainOrNothing :
            (/\ before \o after # <<>>
             /\ input = before \o Tag(<<"a">>, <<>>) \o after)
            => /\ ~ParseFailed
               /\ \A k \in 1..Len(macros) :
                      (/\ Named(k, <<"a">>)
                       /\ \A j \in 1..(k - 1) : ~Named(j, <<"a">>)
                       /\ macros[k].replace.kind = "return")
                      => result = before \o macros[k].replace.value \o after

C16_Witness ==
    /\ Returned
    /\ input = <<"p">> \o Tag(<<"a">>, <<>>)
    /\ Len(macros) = 1
    /\ Named(1, <<"a">>)
    /\ macros[1].replace = [kind |-> "return", value |-> <<"x">>]
    /\ result = <<"p", "x">>

----------------------------------------------------------------------------
\* the tokens and nested macros filed under an argument node
ArgumentChildren(arg) ==
    {arg.Identifier[i] : i \in 1..Len(arg.Identifier)}
        \cup {arg.Unknown[i] : i \in 1..Len(arg.Unknown)}
        \cup {arg.ArgsColon[i] : i \in 1..Len(arg.ArgsColon)}
        \cup {[startOffset |-> arg.macro[i].location.startOffset,
               endOffset |-> arg.macro[i].location.endOffset] : i \in 1..Len(arg.macro)}

\* the text an argument node spans: from its first child to its last
ArgumentText(arg) ==
    LET cs == ArgumentChildren(arg)
        first == CHOOSE c \in cs : \A d \in cs : c.startOffset <= d.startOffset
        last == CHOOSE c \in cs : \A d \in cs : d.endOffset <= c.endOffset
    IN  SubSeq(input, first.startOffset + 1, last.endOffset + 1)

\* identifiers and single colons that hold no `::` once written out
ColonFrags ==
    {fs \in SeqsUpTo({<<"a">>, <<"b">>, <<":">>}, MaxFrags) :
        /\ \E i \in 1..Len(fs) : fs[i] = <<":">>
        /\ ~Occurs(DCOLON, Flatten(fs))}

(* C17: in a macro whose arguments are separated by `::`, single colons are *)
(* part of the argument they stand in and never split it: {{a::a:b}} has    *)
(* the one argument a:b                                                     *)
C17_SingleColonsStayInArgument ==
    Tested =>
        \A fs \in ColonFrags :
            input = MacroText(DCOLON, fs) =>
                /\ Len(parserErrors) = 0
                /\ cst[1].arguments[1].separator.image = DCOLON
                /\ Len(cst[1].arguments[1].argument) = 1
                /\ ArgumentText(cst[1].arguments[1].argument[1]) = Flatten(fs)
                /\ Len(cst[1].arguments[1].argument[1].ArgsColon)
                       = Cardinality({i \in 1..Len(fs) : fs[i] = <<":">>})

C17_Witness ==
    /\ Tested
    /\ input = MacroText(DCOLON, << <<"a">>, <<":">>, <<"b">> >>)
    /\ Len(parserErrors) = 0
    /\ Len(cst[1].arguments[1].argument) = 1
    /\ ArgumentText(cst[1].arguments[1].argument[1]) = <<"a", ":", "b">>

----------------------------------------------------------------------------
\* {{ b }}: the macro b with whitespace inside its delimiters
Padded == OPEN \o <<" ", "b", " ">> \o CLOSE

\* the first rule of the call's list named identifier, 0 when there is none
FirstNamed(identifier) ==
    IF \E k \in 1..Len(macros) : Named(k, identifier)
    THEN CHOOSE k \in 1..Len(macros) :
             Named(k, identifier) /\ \A j \in 1..(k - 1) : ~Named(j, identifier)
    ELSE 0

(* C18: {{ b }} parses without error to the macro with identifier b and no  *)
(* arguments, and is resolved against the same rule, with the same value,   *)
(* as {{b}}                                                                 *)
C18_PaddingIgnored ==
    (Returned /\ input = Padded) =>
        /\ ~ParseFailed
        /\ Len(cst[1].macro) = 1
        /\ cst[1].macro[1].MacroIdentifier.image = <<"b">>
        /\ cst[1].macro[1].arguments = <<>>
        /\ Len(visits) = 1
        /\ visits[1].identifier = <<"b">>
        /\ visits[1].args = <<>>
        /\ visits[1].rule = FirstNamed(<<"b">>)
        /\ LET plain == parseDocument(Tag(<<"b">>, <<>>), macros).visits[1]
           IN  /\ visits[1].rule = plain.rule
               /\ visits[1].outcome = plain.outcome
               /\ visits[1].value = plain.value

C18_Witness ==
    /\ Returned
    /\ input = Padded
    /\ visits[1].rule = 2
    /\ visits[1].outcome = "returned"
    /\ result = <<"x">>

----------------------------------------------------------------------------
----------------------------------------------------------------------------
\* the keys a call can name, trimmed
TrimmedKeys == {Trim(key.value) : key \in RegistryKeys}

\* call i went through and named the key k
Touches(i, k) ==
    /\ ~calls[i].threw
    /\ calls[i].key.type = "string"
    /\ Trim(calls[i].key.value) = k

\* the last of the first n calls that went through and named k, 0 if none
LastCall(k, n) ==
    IF \E i \in 1..n : Touches(i, k)
    THEN CHOOSE i \in 1..n : Touches(i, k) /\ \A j \in (i + 1)..n : ~Touches(j, k)
    ELSE 0

\* k was registered after the first n calls
RegisteredAfter(k, n) == LastCall(k, n) # 0 /\ calls[LastCall(k, n)].op = "register"

\* what registerMacro stores for a value: strings and functions as they are,
\* anything else converted to a string
Stored(value) ==
    IF value.type \in {"string", "function"} THEN value
    ELSE [type |-> "string", value |-> <<>>]   \* null becomes ''

(* C20: the registry maps each trimmed key to the value of the most recent  *)
(* registration that went through and was not followed by an unregistration *)
(* of that key; registering a registered key overwrites it with a warning   *)
(* and unregistering removes it                                             *)
C20_RegistryIsLastRegistration ==
    /\ \A k \in TrimmedKeys :
           IF RegisteredAfter(k, Len(calls))
           THEN /\ k \in DOMAIN registered
                /\ registered[k] = Stored(calls[LastCall(k, Len(calls))].value)
           ELSE k \notin DOMAIN registered
    /\ DOMAIN registered \subseteq TrimmedKeys
    /\ \A i \in 1..Len(calls) :
           (calls[i].op = "register" /\ ~calls[i].threw) =>
               ("registered" \in calls[i].warned
                    <=> RegisteredAfter(Trim(calls[i].key.value), i - 1))

C20_Witness ==
    /\ Len(calls) = 3
    /\ calls[1] = [op |-> "register", key |-> JsString(<<"a">>),
                   value |-> JsString(<<"x">>), threw |-> FALSE, warned |-> {}]
    /\ calls[2].op = "register"
    /\ calls[2].key = JsString(<<" ", "a">>)
    /\ calls[2].value.type = "function"
    /\ calls[2].warned = {"registered"}
    /\ calls[3].op = "unregister"
    /\ calls[3].key = JsString(<<"b">>)
    /\ DOMAIN registered = {<<"a">>}
    /\ registered[<<"a">>].type = "function"

----------------------------------------------------------------------------
\* the number of places where s occurs in t
Occurrences(s, t) ==
    Cardinality({i \in 1..(Len(t) - Len(s) + 1) : SubSeq(t, i, i + Len(s) - 1) = s})

\* the last evaluateMacros call
Evaluated == evaluations # <<>>
Evaluation == evaluations[1]

\* the calls of function-valued entries are made only for macros that occur
\* in a document that parsed, at most once per occurrence, all with the
\* nonce of the call
CalledLazily ==
    Evaluated =>
        /\ Evaluation.errors # <<>> => Evaluation.invocations = <<>>
        /\ \A i \in 1..Len(Evaluation.invocations) :
               LET key == Evaluation.invocations[i].key IN
               /\ Evaluation.invocations[i].nonce = Evaluation.nonce[1]
               /\ \E e \in 1..Len(Evaluation.env.entries) :
                      /\ Evaluation.env.entries[e].key = key
                      /\ Evaluation.env.entries[e].value.type = "function"
               /\ Cardinality({j \in 1..Len(Evaluation.invocations) :
                                   Evaluation.invocations[j].key = key})
                      <= Occurrences(OPEN \o key, Evaluation.content)

\* a call that generates a nonce generates one that no earlier call had
FreshNonce ==
    (evaluations' # evaluations /\ evaluations'[1].nonce # <<>>)
        => evaluations'[1].nonce[1] \notin nonces

(* C21: a function-valued entry is called only when an occurrence of its    *)
(* macro is substituted, never when the macro is absent or the parse fails; *)
(* every call within one evaluateMacros call gets the same nonce, and each  *)
(* evaluateMacros call generates a nonce no earlier call had                *)
C21_LazyWithOneFreshNonce == []CalledLazily /\ [][FreshNonce]_vars

C21_Witness ==
    /\ Evaluated
    /\ Evaluation.content = <<"p">> \o Braced(<<"u">>) \o Braced(<<"u">>)
    /\ Len(Evaluation.invocations) = 2
    /\ Evaluation.invocations[1].nonce = 2
    /\ Evaluation.invocations[2].nonce = 2
    /\ nonces = {1, 2}
    /\ Evaluation.result = <<"p", "y", "y">>

----------------------------------------------------------------------------
\* some call that returned before on the same engine had parsing errors
EarlierFailed == \E i \in 1..Len(earlier) : earlier[i].failed

(* C22: no state survives a parseDocument call on the shared engine and     *)
(* parser: whatever calls were made before, a call returns what a fresh     *)
(* engine returns for the same text and rules, with the same callbacks run; *)
(* the errors of an earlier failed parse never make a later well-formed     *)
(* document come back unevaluated                                           *)
C22_EqualsFreshEngine ==
    Returned =>
        LET fresh == parseDocument(input, macros) IN
        /\ result = fresh.result
        /\ visits = fresh.visits
        /\ parserErrors = fresh.errors
        /\ (EarlierFailed /\ document(tokenize(input)).errors = <<>>)
               => ~ParseFailed

C22_Witness ==
    /\ Returned
    /\ EarlierFailed
    /\ Len(earlier) = 2
    /\ input = <<"p">> \o Braced(<<"a">>)
    /\ result = <<"p", "x">>
    /\ ~ParseFailed

----------------------------------------------------------------------------
\* the visits of the last evaluation that were resolved to a rule made from
\* an env entry
EnvVisits ==
    {i \in 1..Len(Evaluation.visits) :
        EntryOfRule(Evaluation.env.entries, Evaluation.visits[i].rule) # <<>>}

\* what the entry behind visit i holds, or what it returns when it is a function
GivenValue(i) ==
    LET e == EntryOfRule(Evaluation.env.entries, Evaluation.visits[i].rule)[1].value
    IN  IF e.type = "function" THEN e.returns ELSE e

\* YYYY-MM-DDTHH:mm:ss.sssZ
IsISOTimestamp(s) ==
    /\ Len(s) = 24
    /\ s[5] = "-" /\ s[8] = "-" /\ s[11] = "T" /\ s[14] = ":" /\ s[17] = ":"
    /\ s[20] = "." /\ s[24] = "Z"

IsJSONObjectText(s) == Len(s) >= 2 /\ s[1] = "{" /\ s[Len(s)] = "}"

(* C23: the value substituted for an env or registered macro is the         *)
(* sanitized entry, or the sanitized result of a function-valued entry:     *)
(* a string unchanged, null, undefined, a function or a promise as the      *)
(* empty string, a date as its ISO timestamp, another object as its JSON    *)
(* text, anything else as String(value); the macro is always replaced by    *)
(* that string                                                              *)
C23_SubstitutesSanitizedValue ==
    Evaluated =>
        \A i \in EnvVisits :
            LET v == Evaluation.visits[i]
                given == GivenValue(i)
            IN  /\ v.outcome = "returned"
                /\ given.type = "string" => v.value = given.value
                /\ given.type \in {"null", "undefined", "function", "promise"}
                       => v.value = <<>>
                /\ given.type = "date" => IsISOTimestamp(v.value)
                /\ given.type = "object" => IsJSONObjectText(v.value)
                /\ given.type \in {"number", "boolean"} => v.value = String(given)

----------------------------------------------------------------------------
\* the input does not begin with the opening delimiter
TextBeforeMacro == input # <<>> /\ ~StartsWith(input, OPEN)

(* C24: MacroParser.test parses anchored at the macro rule, not at the      *)
(* document rule: for an input with text before the first opening delimiter *)
(* it returns exactly one MismatchedToken error expecting Macro.Start and   *)
(* no CST; the errors it returns are those of this call only, whatever the  *)
(* calls before left behind                                                 *)
C24_TestAnchoredAtMacro ==
    Tested =>
        /\ parserErrors = test(input).errors
        /\ TextBeforeMacro =>
               /\ cst = <<>>
               /\ Len(parserErrors) = 1
               /\ parserErrors[1].name = "MismatchedTokenException"
               /\ parserErrors[1].expected = "Macro.Start"

C24_Witness ==
    /\ Tested
    /\ EarlierFailed
    /\ input = <<"p">> \o Braced(<<"a">>)
    /\ cst = <<>>
    /\ parserErrors = <<[name |-> "MismatchedTokenException",
                         expected |-> "Macro.Start", found |-> <<"p">>]>>

----------------------------------------------------------------------------
\* visit i ran a replace callback
Replaced(i) == visits[i].rule # 0

\* the macros of visits i and j do not overlap: siblings, or macros in
\* different branches
Apart(i, j) ==
    \/ visits[i].location.endOffset < visits[j].location.startOffset
    \/ visits[j].location.endOffset < visits[i].location.startOffset

\* the macro of visit i lies inside the macro of visit k
Inside(i, k) ==
    /\ visits[k].location.startOffset < visits[i].location.startOffset
    /\ visits[i].location.endOffset < visits[k].location.endOffset

(* C25: in one parseDocument call on a document that parsed, a macro        *)
(* occurrence triggers at most one replace invocation, and the invocations  *)
(* for macros that stand side by side (top-level macros, macros in          *)
(* successive arguments) run from left to right                             *)
C25_OncePerOccurrenceLeftToRight ==
    Parsed =>
        /\ \A i, j \in 1..Len(visits) :
               i # j => visits[i].location # visits[j].location
        /\ \A i, j \in 1..Len(visits) :
               (i < j /\ Replaced(i) /\ Replaced(j) /\ Apart(i, j))
                   => visits[i].location.endOffset < visits[j].location.startOffset

\* macros in two successive arguments of a macro, each replaced, then the
\* macro itself
C25_Witness ==
    /\ Parsed
    /\ Len(visits) = 3
    /\ \A i \in 1..3 : Replaced(i)
    /\ Apart(1, 2)
    /\ Inside(1, 3) /\ Inside(2, 3)
    /\ visits[3].args = << visits[1].value, visits[2].value >>
    /\ visits[1].location.endOffset < visits[2].location.startOffset

----------------------------------------------------------------------------
\* the names of a sequence of rules
RuleKeys(rules) == [i \in 1..Len(rules) |-> rules[i].name.value[1]]

\* the rules of the last evaluation made from env entries
EnvRules ==
    SubSeq(Evaluation.macros, Len(preEnvMacros) + 1,
           Len(Evaluation.macros) - Len(postEnvMacros))

\* the entry that key has among the env rules, <<>> when it has none
EnvValueOf(key) ==
    LET is == {i \in 1..Len(EnvRules) : RuleKeys(EnvRules)[i] = key}
    IN  IF is = {} \/ Len(EnvRules) # Len(Evaluation.env.entries) THEN <<>>
        ELSE <<Evaluation.env.entries[CHOOSE i \in is : TRUE].value>>

\* the rule list is pre-env built-ins, env entries, post-env built-ins; the
\* env entries are the registered macros and the caller's entries under
\* other keys
ListedInOrder ==
    /\ Len(Evaluation.macros) >= Len(preEnvMacros) + Len(postEnvMacros)
    /\ SubSeq(Evaluation.macros, 1, Len(preEnvMacros)) = preEnvMacros
    /\ SubSeq(Evaluation.macros, Len(Evaluation.macros) - Len(postEnvMacros) + 1,
              Len(Evaluation.macros)) = postEnvMacros
    /\ \A k \in DOMAIN Evaluation.registry : EnvValueOf(k) = <<Evaluation.registry[k]>>
    /\ \A i \in 1..Len(Evaluation.given.entries) :
           Evaluation.given.entries[i].key \notin DOMAIN Evaluation.registry
               => EnvValueOf(Evaluation.given.entries[i].key)
                      = <<Evaluation.given.entries[i].value>>
    /\ \A i \in 1..Len(EnvRules) :
           \/ RuleKeys(EnvRules)[i] \in DOMAIN Evaluation.registry
           \/ \E j \in 1..Len(Evaluation.given.entries) :
                  Evaluation.given.entries[j].key = RuleKeys(EnvRules)[i]

\* a macro named like a pre-env built-in is resolved to the built-in, one
\* named like a post-env built-in to the env entry of that name if there is one
ResolvedInOrder ==
    \A i \in 1..Len(Evaluation.visits) :
        LET v == Evaluation.visits[i] IN
        /\ (\E k \in 1..Len(preEnvMacros) : RuleKeys(preEnvMacros)[k] = v.identifier)
               => /\ v.rule \in 1..Len(preEnvMacros)
                  /\ v.value = preEnvMacros[v.rule].replace.value
        /\ ((\E k \in 1..Len(postEnvMacros) : RuleKeys(postEnvMacros)[k] = v.identifier)
                /\ EnvValueOf(v.identifier) # <<>>)
               => /\ v.rule \in (Len(preEnvMacros) + 1)..(Len(preEnvMacros) + Len(EnvRules))
                  /\ Evaluation.macros[v.rule].name.value[1] = v.identifier

Built == Evaluated /\ Evaluation.content # <<>>

----------------------------------------------------------------------------
\* what a call of the random or pick callback returned is the empty string
\* for an empty argument list, otherwise the element of the list at an index
\* between 0 and length - 1
OneOfArgs(call) ==
    IF call.macro.args = <<>>
    THEN call.result = <<>> /\ call.index = <<>>
    ELSE /\ call.index # <<>>
         /\ call.index[1] \in 0..(Len(call.macro.args) - 1)
         /\ call.result = call.macro.args[call.index[1] + 1]

(* C28: random and pick return the empty string when the macro has no       *)
(* arguments, and otherwise exactly one element of args, at an index from   *)
(* 0 to args.length - 1                                                     *)
C28_ReturnsOneOfArgs ==
    /\ \A i \in 1..Len(picks) : OneOfArgs(picks[i])
    /\ lastRandom # <<>> => OneOfArgs(lastRandom[1])

C28_Witness ==
    /\ lastRandom # <<>>
    /\ Len(lastRandom[1].macro.args) = 3
    /\ lastRandom[1].index = <<2>>
    /\ lastRandom[1].result = <<"p">>
    /\ Len(picks) = 2
    /\ picks[1].macro.args = <<>> /\ picks[1].result = <<>>
    /\ Len(picks[2].macro.args) = 2 /\ picks[2].result \in {<<"x">>, <<"y">>}

----------------------------------------------------------------------------
\* the id the hash of a chat is computed from
HashedChatId == IF chat_metadata.main_chat # <<>> THEN chat_metadata.main_chat[1]
                ELSE currentChatId

\* this step is a call of the pick callback that chose among arguments
Picked == picks' # picks /\ picks'[Len(picks')].macro.args # <<>>

\* the pick of this step uses the stored hash and leaves the metadata alone,
\* or, when none is stored, computes it from the chat id and stores it
UsesStoredHash ==
    Picked =>
        LET used == picks'[Len(picks')].chatIdHash[1] IN
        IF chat_metadata.chat_id_hash # <<>>
        THEN /\ used = chat_metadata.chat_id_hash[1]
             /\ chat_metadata' = chat_metadata
        ELSE /\ used = getStringHash(HashedChatId)
             /\ chat_metadata' = [chat_metadata EXCEPT !.chat_id_hash = <<used>>]

----------------------------------------------------------------------------
\* reader.read() reports done
Done == reader = "reading" /\ stream = <<>>

\* no further invocation of readStream is scheduled and the progress
\* container is hidden
Stopped == reader \in {"returned", "threw"} /\ progressContainer = "none"

(* C30: readStream terminates: once reader.read() reports done it stops     *)
(* rescheduling itself and hides the progress display, whether or not the   *)
(* expected number of finished packets (1, or 2 with a draft model) has     *)
(* been received                                                            *)
C30_ReadStreamTerminates == Done ~> Stopped

----------------------------------------------------------------------------
\* what a call made from a callback returns when it runs on a parser of its own
OnSeparateParser ==
    [text \in InnerDocuments |-> parseDocument(text, InnerRules).result]

(* C27: when a replace callback calls parseDocument while an outer          *)
(* parseDocument is evaluating, the outer call returns what it would return *)
(* had the inner call run on a separate parser, whether the inner parse     *)
(* succeeds or fails                                                        *)
C27_OuterUnaffectedByInner ==
    Returned => result = parseDocument(input, Resolve(macros, OnSeparateParser)).result

\* the inner parse failed and left its errors in the shared parser; the
\* outer call still returned its evaluated document
C27_Witness ==
    /\ Returned
    /\ inner # <<>>
    /\ inner[1].errors # <<>>
    /\ parserErrors = inner[1].errors
    /\ input = <<"p">> \o Braced(<<"a">>) \o Braced(<<"b">>)
    /\ result = <<"p", "{", "{", "a", "y">>

====
